---------------------------- MODULE Spec2Model ----------------------------
(***************************************************************************)
(* ampackage: source resolution, caching, configuration and publishing.    *)
(*                                                                         *)
(* The model follows src/bin/config.js, src/bin/fetcher.js (the fetchers,  *)
(* the resolution engine and the multi-source command-line front end) and  *)
(* src/bin/git-pusher.js.                                                  *)
(*                                                                         *)
(* Conventions.  A JavaScript `undefined` field is the string Undef.  A    *)
(* file is a record with an `exists` flag.  A formatted string (a path, a  *)
(* URL, a branch name, a message) is the tuple of the parts the code       *)
(* concatenates, so that two formatted strings are equal exactly when      *)
(* their parts are.  File contents range over well-formed text, including  *)
(* the empty text.                                                         *)
(***************************************************************************)
EXTENDS Naturals, Sequences, FiniteSets, TLC

VARIABLES
    configFile,     \* .ampackage.json at "cwd" and at "home"
    defaultConfig,  \* the module-level defaultConfig object of config.js
    cfgOut,         \* what the last configuration call did and returned
    fs,             \* local template directories: file path -> content
    remote,         \* raw.githubusercontent.com: files by URL, and faults
    cache,          \* ~/.ampackage/cache: file path -> content and mtime
    clock,          \* Date.now(), in milliseconds
    ft,             \* the running (or last) fetchTemplate call
    cm,             \* the last CacheManager call, and the set calls made
    ls,             \* the running (or last) listAllTemplates call
    project,        \* the project's files below the working directory
    cli,            \* the running (or last) command
    repo,           \* the source's remote repository and its working clone
    gp,             \* the running (or last) GitPusher call
    rival           \* a second ampackage process's GitPusher call, waiting

cfgVars == <<configFile, defaultConfig, cfgOut>>
envVars == <<fs, remote, cache, clock>>
gitVars == <<repo, gp, rival>>

vars == <<configFile, defaultConfig, cfgOut, fs, remote, cache, clock, ft,
          cm, ls, project, cli, repo, gp, rival>>

\* What the actions of one part leave alone.
exceptConfig == <<envVars, ft, cm, ls, project, cli, gitVars>>
exceptFetch == <<cfgVars, cm, ls, project, cli, gitVars>>
exceptCache == <<cfgVars, fs, remote, ft, ls, project, cli, gitVars>>
exceptList == <<cfgVars, envVars, ft, cm, project, cli, gitVars>>
exceptCommand == <<cfgVars, envVars, cm, ls, gitVars>>
exceptGit == <<cfgVars, envVars, ft, cm, ls, project, cli, rival>>

Undef == "<undefined>"

(***************************************************************************)
(* Helpers on sequences.                                                   *)
(***************************************************************************)
Range(s) == {s[i] : i \in 1..Len(s)}

RECURSIVE SeqFilter(_, _)
\* Array.prototype.filter with the predicate "element is in keep".
SeqFilter(s, keep) ==
    IF s = <<>> THEN <<>>
    ELSE IF Head(s) \in keep THEN <<Head(s)>> \o SeqFilter(Tail(s), keep)
         ELSE SeqFilter(Tail(s), keep)

\* sources.findIndex(s => s.name === name), 1-based; 0 stands for
\* JavaScript's -1.
FindIndexByNameBroken(s, name) == 0

FindIndexByName(s, name) ==
    IF \E i \in 1..Len(s) : s[i].name = name
    THEN CHOOSE i \in 1..Len(s) :
            s[i].name = name /\ \A j \in 1..(i - 1) : s[j].name # name
    ELSE 0

(***************************************************************************)
(* Configuration store (config.js).                                        *)
(***************************************************************************)
DefaultTtl == 3600000

LocalDefaultSource ==
    [name |-> "local", type |-> "local", url |-> Undef, branch |-> Undef,
     path |-> "./templates", default |-> TRUE]

DefaultCache == [enabled |-> TRUE, ttl |-> DefaultTtl]

\* The literal the module starts with.
DefaultConfigLiteral == [sources |-> <<LocalDefaultSource>>, cache |-> DefaultCache]

NoConfigFile == [state |-> "absent"]

\* A configuration file that holds JSON: the top-level keys it has and
\* their values (the value given here for a key it has not is never read).
JsonFile(keys, sources, cacheSettings) ==
    [state |-> "json", keys |-> keys,
     sources |-> IF "sources" \in keys THEN sources ELSE << >>,
     cache |-> IF "cache" \in keys THEN cacheSettings
               ELSE [enabled |-> FALSE, ttl |-> 0]]

\* getConfigPath: the file in the working directory when it exists,
\* otherwise the one in the home directory.
getConfigPath == IF configFile["cwd"].state # "absent" THEN "cwd" ELSE "home"

SpreadBroken(defaults, f) == defaults

\* { ...defaultConfig, ...config }: a top-level key of the file replaces
\* the default of that key as a whole.
Spread(defaults, f) ==
    [sources |-> IF "sources" \in f.keys THEN f.sources ELSE defaults.sources,
     cache |-> IF "cache" \in f.keys THEN f.cache ELSE defaults.cache]

\* loadConfig.  `doc` is the returned document; `isDefault` says that the
\* returned object is defaultConfig itself, `sharesSources` that its
\* sources array is defaultConfig.sources (object spread copies the
\* reference).
loadConfig ==
    LET f == configFile[getConfigPath] IN
    IF f.state = "json"
    THEN [doc |-> Spread(defaultConfig, f),
          isDefault |-> FALSE,
          sharesSources |-> "sources" \notin f.keys]
    ELSE \* no file, or readJson threw and the catch returned the defaults
         [doc |-> defaultConfig, isDefault |-> TRUE, sharesSources |-> TRUE]

\* What saveConfig writes: writeJson of the whole document.
SavedFile(doc) == JsonFile({"sources", "cache"}, doc.sources, doc.cache)

\* The source object addSource builds: {name, type, url, ...options}.
NewSource(name, type, url, options) ==
    [name |-> name, type |-> type, url |-> url,
     branch |-> options.branch, path |-> options.path,
     default |-> options.default]

\* config.sources[existingIndex] = source, or config.sources.push(source).
PutSourceBroken(sources, source) == Append(sources, source)

PutSource(sources, source) ==
    LET existingIndex == FindIndexByName(sources, source.name) IN
    IF existingIndex >= 1 THEN [sources EXCEPT ![existingIndex] = source]
    ELSE Append(sources, source)

\* config.sources.filter(s => s.name !== name)
DropSourceBroken(sources, name) ==
    SeqFilter(sources, {s \in Range(sources) : s.name = name})

DropSource(sources, name) ==
    SeqFilter(sources, {s \in Range(sources) : s.name # name})

(***************************************************************************)
(* Inputs of the configuration calls.                                      *)
(***************************************************************************)
\* Names of configured sources; AddNames are the names given to addSource.
SourceNames == {"local", "x", "y"}
AddNames == {"x", "y"}
\* The (type, location) pairs given to addSource.
AddInputs == {<<"local", "/a">>, <<"github", "/b">>}
\* The options the `source add` command passes (its flag defaults).
CliOptions == [branch |-> "main", path |-> "templates", default |-> FALSE]

NoCfgOut == [op |-> "none", name |-> Undef, url |-> Undef, status |-> "none"]

\* addSource(name, type, url, options); saveOk: whether writeJson succeeds.
addSource(name, type, url, options, saveOk) ==
    LET loaded == loadConfig
        source == NewSource(name, type, url, options)
        sources == PutSource(loaded.doc.sources, source)
        config == [loaded.doc EXCEPT !.sources = sources]
        path == getConfigPath
    IN  \* the array is changed in place: defaultConfig sees it when shared
        /\ defaultConfig' = IF loaded.sharesSources
                            THEN [defaultConfig EXCEPT !.sources = sources]
                            ELSE defaultConfig
        /\ configFile' = IF saveOk
                         THEN [configFile EXCEPT ![path] = SavedFile(config)]
                         ELSE configFile
        /\ cfgOut' = [op |-> "addSource", name |-> name, url |-> url,
                      status |-> IF saveOk THEN "ok" ELSE "save_failed"]

\* removeSource(name)
removeSource(name, saveOk) ==
    LET loaded == loadConfig
        initialLength == Len(loaded.doc.sources)
        sources == DropSource(loaded.doc.sources, name)
        config == [loaded.doc EXCEPT !.sources = sources]
        found == Len(sources) # initialLength
        path == getConfigPath
    IN  \* config.sources is assigned: defaultConfig changes only when the
        \* loaded object is defaultConfig itself
        /\ defaultConfig' = IF loaded.isDefault
                            THEN [defaultConfig EXCEPT !.sources = sources]
                            ELSE defaultConfig
        /\ configFile' = IF found /\ saveOk
                         THEN [configFile EXCEPT ![path] = SavedFile(config)]
                         ELSE configFile
        /\ cfgOut' = [op |-> "removeSource", name |-> name, url |-> Undef,
                      status |-> IF ~found THEN "not_found"
                                 ELSE IF saveOk THEN "ok" ELSE "save_failed"]

AddSource ==
    /\ \E name \in AddNames, input \in AddInputs, saveOk \in BOOLEAN :
          addSource(name, input[1], input[2], CliOptions, saveOk)
    /\ UNCHANGED exceptConfig

RemoveSource ==
    /\ \E name \in SourceNames, saveOk \in BOOLEAN : removeSource(name, saveOk)
    /\ UNCHANGED exceptConfig

\* A new command-line invocation: the module is loaded afresh.
NewProcess ==
    /\ defaultConfig' = DefaultConfigLiteral
    /\ cfgOut' = NoCfgOut
    /\ UNCHANGED <<configFile, exceptConfig>>

\* The configuration files an invocation may find: none, or a document
\* in the working directory that holds only the cache settings.
InitialConfigFiles ==
    {[cwd |-> NoConfigFile, home |-> NoConfigFile],
     [cwd |-> JsonFile({"cache"}, << >>, [enabled |-> FALSE, ttl |-> 60000]),
      home |-> NoConfigFile]}

\* No file anywhere, the clock at 0, no call running.
EmptyFiles == << >>
NoFault == "none"
IdleFetch == [pc |-> "idle"]
NoCacheCall == [last |-> [op |-> "none"], written |-> << >>]
IdleListing == [pc |-> "idle"]
IdleCommand == [pc |-> "idle"]
NoRepo == [exists |-> FALSE]
IdlePusher == [pc |-> "idle"]

QuietConfig ==
    /\ configFile = [cwd |-> NoConfigFile, home |-> NoConfigFile]
    /\ defaultConfig = DefaultConfigLiteral
    /\ cfgOut = NoCfgOut

QuietEnv ==
    /\ fs = EmptyFiles
    /\ remote = [files |-> EmptyFiles, fault |-> NoFault]
    /\ cache = EmptyFiles
    /\ clock = 0

QuietGit ==
    /\ repo = NoRepo
    /\ gp = IdlePusher
    /\ rival = IdlePusher

InitConfig ==
    /\ configFile \in InitialConfigFiles
    /\ defaultConfig = DefaultConfigLiteral
    /\ cfgOut = NoCfgOut
    /\ QuietEnv
    /\ ft = IdleFetch /\ cm = NoCacheCall /\ ls = IdleListing
    /\ project = EmptyFiles /\ cli = IdleCommand
    /\ QuietGit

NextConfig == AddSource \/ RemoveSource \/ NewProcess

SpecConfig == InitConfig /\ [][NextConfig]_vars

(***************************************************************************)
(* Paths and the cache manager (fetcher.js).                               *)
(***************************************************************************)
Kinds == {"component", "hook", "util"}

getFileExtension(type) == IF type = "component" THEN ".tsx" ELSE ".ts"

pluralizeType(type) == type \o "s"

\* dir/<pluralized type>/<name><ext>; the file name is kept as the pair
\* of its stem and its extension.
TemplateFile(dir, type, name) ==
    <<dir, pluralizeType(type), <<name, getFileExtension(type)>>>>

\* CacheManager.getCachePath, relative to the cache directory.
getCachePath(source, type, name) == TemplateFile(source.name, type, name)

\* fs.pathExists
pathExists(files, path) == path \in DOMAIN files

\* A file added to (or overwritten in) a directory tree.
WriteFile(files, path, data) ==
    [q \in DOMAIN files \cup {path} |-> IF q = path THEN data ELSE files[q]]

\* CacheManager.isCacheValid: age = Date.now() - mtime; age < ttl.
isCacheValidBroken(cachePath, ttl) ==
    pathExists(cache, cachePath)

isCacheValid(cachePath, ttl) ==
    /\ pathExists(cache, cachePath)      \* fs.stat throws otherwise
    /\ clock - cache[cachePath].mtime < ttl

\* The value JavaScript's null has here.
Null == [isNull |-> TRUE]
Text(content) == [isNull |-> FALSE, text |-> content]

\* CacheManager.getCachedFile
getCachedFile(source, type, name, ttl) ==
    LET cachePath == getCachePath(source, type, name) IN
    IF pathExists(cache, cachePath) /\ isCacheValid(cachePath, ttl)
    THEN Text(cache[cachePath].content)
    ELSE Null

\* CacheManager.setCachedFile: the cache directory after the write.
setCachedFile(source, type, name, content) ==
    WriteFile(cache, getCachePath(source, type, name),
              [content |-> content, mtime |-> clock])

\* if (cached): null and the empty string are falsy.
Truthy(value) == ~value.isNull /\ value.text # ""

(***************************************************************************)
(* Source fetchers (fetcher.js).                                           *)
(***************************************************************************)
PackageRoot == "/pkg"

\* path.isAbsolute, for the paths that occur.
AbsolutePaths == {"/srv/tpl", "/a", "/b"}
isAbsolute(p) == p \in AbsolutePaths

\* path.join(packageRoot, p): "./templates" and "templates" are the same
\* directory below the package root.
JoinRoot(p) ==
    PackageRoot \o "/" \o (IF p = "./templates" THEN "templates" ELSE p)

\* LocalFetcher.getLocalPath
getLocalPath(source) ==
    LET localPath == IF source.path # Undef THEN source.path ELSE "./templates" IN
    IF isAbsolute(localPath) THEN localPath ELSE JoinRoot(localPath)

\* The outcome of one fetchFile call: what it returns or throws, whether
\* it issued an HTTP request, and the cache directory it leaves.
Returned(content, http, newCache) ==
    [ok |-> TRUE, content |-> content, message |-> "", http |-> http,
     cache |-> newCache]
Thrown(message, http) ==
    [ok |-> FALSE, content |-> "", message |-> message, http |-> http,
     cache |-> cache]

NotFoundMessage(type, name) == "Template not found: " \o type \o "/" \o name

\* LocalFetcher.fetchFile
LocalFetchFile(source, type, name) ==
    LET filePath == TemplateFile(getLocalPath(source), type, name) IN
    IF ~pathExists(fs, filePath)
    THEN Thrown(NotFoundMessage(type, name), FALSE)
    ELSE Returned(fs[filePath], FALSE, cache)

\* url.includes('github.com'), and the repository path that
\* url.replace('https://github.com/', '').replace('.git', '') leaves, for
\* the URLs that occur.
GitHubUrls == {"https://github.com/org/tpl.git", "https://github.com/org/ui"}
RepoPath(url) ==
    IF url = "https://github.com/org/tpl.git" THEN "org/tpl" ELSE "org/ui"

\* GitHubFetcher.buildRawUrl: the parts of the raw-content URL (the call
\* throws when the URL does not contain github.com).
buildRawUrl(source, type, name) ==
    LET branch == IF source.branch # Undef THEN source.branch ELSE "main"
        basePath == IF source.path # Undef THEN source.path ELSE "templates"
    IN  <<"https://raw.githubusercontent.com", RepoPath(source.url), branch,
          basePath, pluralizeType(type), <<name, getFileExtension(type)>>>>

GitHubWrap(message) == "Failed to fetch from GitHub: " \o message

\* GitHubFetcher.fetchFile with useCache = true
GitHubFetchFile(source, type, name) ==
    LET cached == getCachedFile(source, type, name, 3600000) IN
    IF Truthy(cached) THEN Returned(cached.text, FALSE, cache)
    ELSE IF source.url \notin GitHubUrls
    THEN Thrown("Invalid GitHub URL format", FALSE)
    ELSE LET url == buildRawUrl(source, type, name) IN
         IF remote.fault = "network"
         THEN Thrown(GitHubWrap("request failed"), TRUE)
         ELSE IF remote.fault = "500"
         THEN Thrown(GitHubWrap("Failed to fetch: Internal Server Error"), TRUE)
         ELSE IF ~pathExists(remote.files, url)         \* status 404
         THEN Thrown(GitHubWrap(NotFoundMessage(type, name)), TRUE)
         ELSE Returned(remote.files[url], TRUE,
                       setCachedFile(source, type, name, remote.files[url]))

\* NpmFetcher.fetchFile with useCache = true
NpmFetchFile(source, type, name) ==
    LET cached == getCachedFile(source, type, name, 3600000) IN
    IF Truthy(cached) THEN Returned(cached.text, FALSE, cache)
    ELSE Thrown("NPM source fetching not yet implemented", FALSE)

\* createFetcher(source, packageRoot).fetchFile(type, name)
FetchFile(source, type, name) ==
    IF source.type = "github" THEN GitHubFetchFile(source, type, name)
    ELSE IF source.type = "npm" THEN NpmFetchFile(source, type, name)
    ELSE LocalFetchFile(source, type, name)

(***************************************************************************)
(* Resolution engine: fetchTemplate (fetcher.js).                          *)
(***************************************************************************)
\* The call: const errors = []; the loop starts at the first source.
FetchFrame(sources, type, name) ==
    [pc |-> "loop", sources |-> sources, type |-> type, name |-> name,
     idx |-> 1, errors |-> <<>>, tried |-> <<>>]

\* One pass of the loop body: fetchFile on the source at idx.  A success
\* returns {content, source}; a failure is pushed on errors.
NextSourceBroken(frame) == frame.idx + 2

NextSource(frame) == frame.idx + 1

ErrorLine(source, message) == source.name \o ": " \o message

FetchStepOnBroken(frame, r) ==
    [frame EXCEPT !.idx = NextSource(frame),
                  !.tried = Append(@, [index |-> frame.idx, ok |-> r.ok,
                                       http |-> r.http,
                                       wrote |-> r.cache # cache])]

FetchStepOn(frame, r) ==
    LET source == frame.sources[frame.idx]
        tried == Append(frame.tried,
                        [index |-> frame.idx, ok |-> r.ok, http |-> r.http,
                         wrote |-> r.cache # cache])
    IN  IF r.ok
        THEN [pc |-> "returned", sources |-> frame.sources,
              type |-> frame.type, name |-> frame.name, idx |-> frame.idx,
              errors |-> frame.errors, tried |-> tried,
              content |-> r.content, source |-> source]
        ELSE [frame EXCEPT !.idx = NextSource(frame), !.tried = tried,
                           !.errors = Append(@, ErrorLine(source, r.message))]

\* throw new Error(`Template not found in any source:\n${errors.join('\n')}`):
\* the message, line by line.
AggregateBroken(errors) ==
    <<"Template not found in any source:">> \o
    (IF errors = <<>> THEN <<>> ELSE <<errors[Len(errors)]>>)

Aggregate(errors) == <<"Template not found in any source:">> \o errors

\* The loop is over and nothing was returned: the aggregate error.
FetchThrowOn(frame) ==
    [pc |-> "thrown", sources |-> frame.sources, type |-> frame.type,
     name |-> frame.name, idx |-> frame.idx, errors |-> frame.errors,
     tried |-> frame.tried, message |-> Aggregate(frame.errors)]

(***************************************************************************)
(* fetchTemplate called on its own: sources, templates, environment.       *)
(***************************************************************************)
SrcLib ==
    [name |-> "lib", type |-> "local", url |-> Undef, branch |-> Undef,
     path |-> "/srv/tpl", default |-> FALSE]
SrcGit ==
    [name |-> "gh", type |-> "github", url |-> "https://github.com/org/tpl.git",
     branch |-> "main", path |-> "templates", default |-> FALSE]
SrcNpm ==
    [name |-> "pkg", type |-> "npm", url |-> "@org/ui-templates",
     branch |-> "main", path |-> "templates", default |-> FALSE]
SrcDev ==
    [name |-> "gh", type |-> "github", url |-> "https://github.com/org/tpl.git",
     branch |-> "develop", path |-> "templates", default |-> FALSE]
SrcLab ==
    [name |-> "lab", type |-> "github", url |-> "https://gitlab.com/org/tpl.git",
     branch |-> "main", path |-> "templates", default |-> FALSE]

CandidateSources == {LocalDefaultSource, SrcLib, SrcGit, SrcNpm, SrcLab}

MaxSources == 3

\* The source lists given to fetchTemplate: no source twice.
SourceLists ==
    {l \in UNION {[1..n -> CandidateSources] : n \in 0..MaxSources} :
        \A i, j \in 1..Len(l) : i # j => l[i] # l[j]}

\* The templates asked for.
FetchRefs == {<<"component", "Button">>, <<"hook", "useAuth">>}

\* A directory tree holding the given templates, each with the content
\* that names the template and the place.
Tree(dir, refs, place) ==
    [q \in {TemplateFile(dir, r[1], r[2]) : r \in refs} |->
        (CHOOSE r \in refs : TemplateFile(dir, r[1], r[2]) = q)[2]
            \o "@" \o place]

RemoteTree(source, refs, place) ==
    [q \in {buildRawUrl(source, r[1], r[2]) : r \in refs} |->
        (CHOOSE r \in refs : buildRawUrl(source, r[1], r[2]) = q)[2]
            \o "@" \o place]

CacheTree(source, refs, place, mtime) ==
    [q \in {getCachePath(source, r[1], r[2]) : r \in refs} |->
        [content |-> (CHOOSE r \in refs : getCachePath(source, r[1], r[2]) = q)[2]
                        \o "@" \o place,
         mtime |-> mtime]]

InitFetch ==
    /\ QuietConfig
    /\ \E inPkg \in SUBSET FetchRefs, inLib \in SUBSET FetchRefs :
          fs = Tree(JoinRoot("templates"), inPkg, "pkg") @@
               Tree("/srv/tpl", inLib, "lib")
    /\ \E inRepo \in SUBSET FetchRefs, fault \in {"none", "500", "network"} :
          /\ fault # "none" => inRepo = FetchRefs
          /\ remote = [files |-> RemoteTree(SrcGit, inRepo, "repo"),
                       fault |-> fault]
    /\ \E inNpmCache \in {{}, FetchRefs}, inGitCache \in {{}, FetchRefs} :
          cache = CacheTree(SrcNpm, inNpmCache, "npmcache", 0) @@
                  CacheTree(SrcGit, inGitCache, "ghcache", 0)
    /\ clock \in {0, DefaultTtl}
    /\ ft = IdleFetch /\ cm = NoCacheCall /\ ls = IdleListing
    /\ project = EmptyFiles /\ cli = IdleCommand
    /\ QuietGit

\* fetchTemplate(sources, type, name, packageRoot) is called.
FetchCall ==
    /\ ft.pc = "idle"
    /\ \E sources \in SourceLists, ref \in FetchRefs :
          ft' = FetchFrame(sources, ref[1], ref[2])
    /\ UNCHANGED <<exceptFetch, envVars>>

\* One pass of the for loop.
FetchStep ==
    /\ ft.pc = "loop"
    /\ ft.idx <= Len(ft.sources)
    /\ LET r == FetchFile(ft.sources[ft.idx], ft.type, ft.name) IN
          /\ ft' = FetchStepOn(ft, r)
          /\ cache' = r.cache
    /\ UNCHANGED <<exceptFetch, fs, remote, clock>>

\* The loop ended without a return.
FetchThrow ==
    /\ ft.pc = "loop"
    /\ ft.idx > Len(ft.sources)
    /\ ft' = FetchThrowOn(ft)
    /\ UNCHANGED <<exceptFetch, envVars>>

NextFetch == FetchCall \/ FetchStep \/ FetchThrow

SpecFetch == InitFetch /\ [][NextFetch]_vars

(***************************************************************************)
(* Listing: listTemplates and listAllTemplates (fetcher.js).               *)
(***************************************************************************)
\* The kinds in the order listAllTemplates walks them.
Types == <<"component", "hook", "util">>

\* A directory <dir>/<pluralized type> that is in fact a regular file:
\* pathExists is true of it and readdir throws.
NotADirectory(files, dir, typeDir) == <<dir, typeDir>> \in DOMAIN files

\* fs.readdir(typeDir): the names of the files in the directory.
ReadDir(files, dir, typeDir) ==
    {q[3] : q \in {f \in DOMAIN files : Len(f) = 3 /\ f[1] = dir /\ f[2] = typeDir}}

\* files.filter(file => file.endsWith('.ts') || file.endsWith('.tsx'))
\*      .map(file => path.parse(file).name)
TemplateNames(fileNames) ==
    {f[1] : f \in {g \in fileNames : g[2] \in {".ts", ".tsx"}}}

\* What a listing call returns (a set of names) or that it threw.
Listed(names) == [ok |-> TRUE, names |-> names]
ListingFailed == [ok |-> FALSE, names |-> {}]

\* LocalFetcher.listTemplates / CacheManager.listCachedTemplates on the
\* directory dir of the tree files.
ListDir(files, dir, type) ==
    IF NotADirectory(files, dir, pluralizeType(type)) THEN ListingFailed
    ELSE Listed(TemplateNames(ReadDir(files, dir, pluralizeType(type))))

\* createFetcher(source, packageRoot).listTemplates(type): the GitHub and
\* npm fetchers list what the cache holds for the source.
ListTemplates(source, type) ==
    IF source.type \in {"github", "npm"}
    THEN ListDir(cache, source.name, type)
    ELSE ListDir(fs, getLocalPath(source), type)

\* UTF-16 code units of the template names that occur, for the default
\* comparison of Array.prototype.sort.
CodeUnits(name) ==
    CASE name = "Button" -> <<66, 117, 116, 116, 111, 110>>
      [] name = "Card" -> <<67, 97, 114, 100>>
      [] name = "button" -> <<98, 117, 116, 116, 111, 110>>
      [] name = "useAuth" -> <<117, 115, 101, 65, 117, 116, 104>>

RECURSIVE UnitsLess(_, _)
UnitsLess(a, b) ==
    IF b = <<>> THEN FALSE
    ELSE IF a = <<>> THEN TRUE
    ELSE IF Head(a) # Head(b) THEN Head(a) < Head(b)
    ELSE UnitsLess(Tail(a), Tail(b))

\* a sorts before b
NameLess(a, b) == UnitsLess(CodeUnits(a), CodeUnits(b))

RECURSIVE InsertSorted(_, _)
InsertSorted(sorted, name) ==
    IF sorted = <<>> THEN <<name>>
    ELSE IF NameLess(name, Head(sorted)) THEN <<name>> \o sorted
    ELSE <<Head(sorted)>> \o InsertSorted(Tail(sorted), name)

RECURSIVE SortFrom(_, _)
SortFrom(done, rest) ==
    IF rest = <<>> THEN done
    ELSE SortFrom(InsertSorted(done, Head(rest)), Tail(rest))

\* Array.from(set).sort()
SortNamesBroken(names) == names

SortNames(names) == SortFrom(<<>>, names)

RECURSIVE AddAll(_, _)
\* templates.forEach(t => set.add(t)): a Set keeps insertion order and
\* holds a value once.
AddAll(order, names) ==
    IF names = {} THEN order
    ELSE LET n == CHOOSE x \in names : TRUE IN
         AddAll(IF n \in Range(order) THEN order ELSE Append(order, n),
                names \ {n})

\* The inner loop over the kinds for one source, from kind number t on: it
\* ends at the first listing that throws.
RECURSIVE ListSource(_, _, _)
ListSourceBroken(all, source, t) ==
    IF \E k \in 1..Len(Types) : ~ListTemplates(source, Types[k]).ok
    THEN [all |-> [type \in Range(Types) |-> <<>>], failed |-> TRUE]
    ELSE [all |-> [type \in Range(Types) |->
                      AddAll(all[type], ListTemplates(source, type).names)],
          failed |-> FALSE]

ListSource(all, source, t) ==
    IF t > Len(Types) THEN [all |-> all, failed |-> FALSE]
    ELSE LET r == ListTemplates(source, Types[t]) IN
         IF ~r.ok THEN [all |-> all, failed |-> TRUE]
         ELSE ListSource([all EXCEPT ![Types[t]] = AddAll(@, r.names)],
                         source, t + 1)

ListFrame(sources) ==
    [pc |-> "loop", sources |-> sources, idx |-> 1,
     all |-> [type \in Range(Types) |-> <<>>], warned |-> <<>>]

\* The templates in the trees at the start of a listing: a tree is empty,
\* or one of three layouts.
ListNames == {"Button", "Card", "button"}

Layout(dir, which) ==
    CASE which = "empty" -> << >>
      [] which = "a" ->
           [q \in {TemplateFile(dir, "component", "Card"),
                   TemplateFile(dir, "component", "Button"),
                   TemplateFile(dir, "util", "button")} |-> "a"]
      [] which = "b" ->
           [q \in {TemplateFile(dir, "component", "button"),
                   TemplateFile(dir, "component", "Button"),
                   TemplateFile(dir, "hook", "Card"),
                   <<dir, "hooks", <<"notes", ".md">>>>} |-> "b"]
      [] which = "broken" ->
           [q \in {TemplateFile(dir, "component", "Card"),
                   <<dir, "hooks">>,
                   TemplateFile(dir, "util", "Button")} |-> "x"]

Layouts == {"empty", "a", "b", "broken"}

\* The same tree as cache entries.
AsCache(files) == [q \in DOMAIN files |-> [content |-> files[q], mtime |-> 0]]

InitList ==
    /\ QuietConfig
    /\ \E inPkg \in Layouts, inLib \in Layouts :
          fs = Layout(JoinRoot("templates"), inPkg) @@ Layout("/srv/tpl", inLib)
    /\ remote = [files |-> EmptyFiles, fault |-> NoFault]
    /\ \E inGit \in Layouts :
          cache = AsCache(Layout(SrcGit.name, inGit)) @@
                  AsCache(Layout(SrcNpm.name, "a"))
    /\ clock = 0
    /\ ft = IdleFetch /\ cm = NoCacheCall /\ ls = IdleListing
    /\ project = EmptyFiles /\ cli = IdleCommand
    /\ QuietGit

\* listAllTemplates(sources, packageRoot) is called.
ListCall ==
    /\ ls.pc = "idle"
    /\ \E sources \in SourceLists : ls' = ListFrame(sources)
    /\ UNCHANGED exceptList

\* One pass of the loop over the sources; a failure is logged as a
\* warning and the loop goes on.
ListStep ==
    /\ ls.pc = "loop"
    /\ ls.idx <= Len(ls.sources)
    /\ LET source == ls.sources[ls.idx]
           r == ListSource(ls.all, source, 1)
       IN  ls' = [ls EXCEPT !.all = r.all, !.idx = @ + 1,
                            !.warned = IF r.failed THEN Append(@, source.name)
                                       ELSE @]
    /\ UNCHANGED exceptList

\* The sets are converted to sorted arrays and returned.
ListReturn ==
    /\ ls.pc = "loop"
    /\ ls.idx > Len(ls.sources)
    /\ ls' = [pc |-> "returned", sources |-> ls.sources, warned |-> ls.warned,
              result |-> [type \in Range(Types) |-> SortNames(ls.all[type])]]
    /\ UNCHANGED exceptList

NextList == ListCall \/ ListStep \/ ListReturn

SpecList == InitList /\ [][NextList]_vars

(***************************************************************************)
(* The cache manager called on its own.                                    *)
(***************************************************************************)
\* The (source, type, name) triples used: two kinds with the same
\* extension, and two sources.
CacheKeys == {<<SrcGit, "hook", "fmt">>, <<SrcGit, "util", "fmt">>,
              <<SrcNpm, "hook", "fmt">>}
Contents == {"", "v1"}

\* The clock advances in steps of half the default time to live.
TickMs == DefaultTtl \div 2
MaxTicks == 2
TtlValues == {TickMs, DefaultTtl}

\* The triple as the caller names it: source name, kind, template name.
Triple(k) == <<k[1].name, k[2], k[3]>>

\* setCachedFile(source, type, name, content)
CacheSet ==
    /\ \E k \in CacheKeys, content \in Contents :
          /\ cache' = setCachedFile(k[1], k[2], k[3], content)
          /\ cm' = [last |-> [op |-> "set", key |-> Triple(k)],
                    written |->
                       WriteFile(cm.written, Triple(k),
                                 [content |-> content, at |-> clock,
                                  first |-> IF Triple(k) \in DOMAIN cm.written
                                            THEN cm.written[Triple(k)].first
                                            ELSE clock])]
    /\ UNCHANGED <<exceptCache, clock>>

\* getCachedFile(source, type, name, ttl)
CacheGet ==
    /\ \E k \in CacheKeys, ttl \in TtlValues :
          cm' = [cm EXCEPT !.last =
                    [op |-> "get", key |-> Triple(k), ttl |-> ttl, at |-> clock,
                     value |-> getCachedFile(k[1], k[2], k[3], ttl)]]
    /\ UNCHANGED <<exceptCache, cache, clock>>

\* Time passes.
Tick ==
    /\ clock < MaxTicks * TickMs
    /\ clock' = clock + TickMs
    /\ UNCHANGED <<cfgVars, fs, remote, cache, ft, cm, ls, project, cli, gitVars>>

InitCache ==
    /\ QuietConfig
    /\ QuietEnv
    /\ ft = IdleFetch /\ cm = NoCacheCall /\ ls = IdleListing
    /\ project = EmptyFiles /\ cli = IdleCommand
    /\ QuietGit

NextCache == CacheSet \/ CacheGet \/ Tick

SpecCache == InitCache /\ [][NextCache]_vars

(***************************************************************************)
(* The add command of the multi-source front end (fetcher.js).             *)
(***************************************************************************)
\* path.join(targetDir, destDir, pluralizeType(type), name + ext), below
\* the working directory.
TargetFileBroken(dest, type, name) == TemplateFile("src", type, name)

TargetFile(dest, type, name) == TemplateFile(dest, type, name)

FilterSourcesBroken(sources, sourceOpt) == sources

\* sources.filter(s => s.name === options.source), when --source is given
FilterSources(sources, sourceOpt) ==
    IF sourceOpt = Undef THEN sources
    ELSE SeqFilter(sources, {x \in Range(sources) : x.name = sourceOpt})

\* await fs.pathExists(targetFile) && !options.overwrite
SkipExistingBroken(frame, targetFile) == FALSE

SkipExisting(frame, targetFile) ==
    pathExists(project, targetFile) /\ ~frame.overwrite

\* The index the per-name loop goes on with after a name; `failed` says
\* that the name ended in the catch block.
NextNameBroken(frame, failed) ==
    IF failed THEN Len(frame.names) + 1 ELSE frame.i + 1

NextName(frame, failed) == frame.i + 1

\* The command lines of add that are run: one or more names of components,
\* --dest, --overwrite, and --source absent, known or unknown.
MaxNames == 2
NameLists == UNION {[1..n -> {"Button", "Card"}] : n \in 1..MaxNames}
DestDirs == {"src", "lib"}
SourceOptions == {Undef, "gh", "nope"}

\* What the command reported for one name; the source is the one that
\* supplied it, when one did.
NoSource == [name |-> Undef]
Report(name, outcome, fetched, source, viaHttp, content) ==
    [name |-> name, outcome |-> outcome, fetched |-> fetched,
     source |-> source, viaHttp |-> viaHttp, content |-> content]

\* The action handler starts: loadConfig, the --source filter, and
\* process.exit(1) when the filter leaves nothing.
AddStart ==
    /\ cli.pc = "idle"
    /\ \E names \in NameLists, dest \in DestDirs, overwrite \in BOOLEAN,
          sourceOpt \in SourceOptions :
          LET sources == FilterSources(loadConfig.doc.sources, sourceOpt)
              unknown == sourceOpt # Undef /\ Len(sources) = 0
          IN  cli' = [pc |-> IF unknown THEN "done" ELSE "loop",
                      command |-> "add", type |-> "component", names |-> names,
                      dest |-> dest, overwrite |-> overwrite,
                      sourceOpt |-> sourceOpt, sources |-> sources, i |-> 1,
                      hasErrors |-> FALSE, log |-> <<>>,
                      entered |-> ~unknown,
                      report |-> IF unknown THEN "Source not found" ELSE "",
                      exit |-> IF unknown THEN 1 ELSE 0]
    /\ UNCHANGED <<exceptCommand, ft, project>>

\* The head of the loop body for the next name: an existing target is
\* reported and skipped, otherwise fetchTemplate is called.
AddName ==
    /\ cli.pc = "loop"
    /\ cli.i <= Len(cli.names)
    /\ LET name == cli.names[cli.i]
           targetFile == TargetFile(cli.dest, cli.type, name)
       IN  IF SkipExisting(cli, targetFile)
           THEN /\ cli' = [cli EXCEPT
                             !.log = Append(@, Report(name, "exists", FALSE,
                                                      NoSource, FALSE, "")),
                             !.i = NextName(cli, FALSE)]
                /\ ft' = ft
           ELSE /\ cli' = [cli EXCEPT !.pc = "fetch"]
                /\ ft' = FetchFrame(cli.sources, cli.type, name)
    /\ UNCHANGED <<exceptCommand, project>>

\* fetchTemplate returned: ensureDir and writeFile, which may throw.
AddWrite ==
    /\ cli.pc = "fetch"
    /\ ft.pc = "returned"
    /\ \E writeOk \in BOOLEAN :
          LET name == cli.names[cli.i]
              targetFile == TargetFile(cli.dest, cli.type, name)
              viaHttp == ft.tried[Len(ft.tried)].http
          IN  /\ project' = IF writeOk
                             THEN WriteFile(project, targetFile, ft.content)
                             ELSE project
              /\ cli' = [cli EXCEPT
                           !.pc = "loop",
                           !.log = Append(@, Report(name,
                                      IF writeOk THEN "added" ELSE "failed",
                                      TRUE, ft.source, viaHttp, ft.content)),
                           !.hasErrors = @ \/ ~writeOk,
                           !.i = NextName(cli, ~writeOk)]
    /\ UNCHANGED <<exceptCommand, ft>>

\* fetchTemplate threw: the catch block of the loop body.
AddCatch ==
    /\ cli.pc = "fetch"
    /\ ft.pc = "thrown"
    /\ cli' = [cli EXCEPT
                 !.pc = "loop",
                 !.log = Append(@, Report(cli.names[cli.i], "failed", TRUE,
                                          NoSource, FALSE, "")),
                 !.hasErrors = TRUE,
                 !.i = NextName(cli, TRUE)]
    /\ UNCHANGED <<exceptCommand, ft, project>>

\* After the loop: process.exit(1) when a name failed.
AddExit ==
    /\ cli.pc = "loop"
    /\ cli.i > Len(cli.names)
    /\ cli' = [cli EXCEPT !.pc = "done",
                          !.exit = IF cli.hasErrors THEN 1 ELSE 0]
    /\ UNCHANGED <<exceptCommand, ft, project>>

\* The configured source lists of the runs of add.
AddConfigs == {<<SrcGit, LocalDefaultSource>>, <<LocalDefaultSource, SrcGit>>,
               <<SrcNpm, SrcGit>>}

\* A run of add starts with: no configuration file or one of the lists;
\* some templates in the bundled directory; the repository holding the
\* component Button in one of two versions, or not; the cache empty or
\* holding what an earlier invocation fetched, half an hour or an hour
\* ago, and possibly an entry written under the name of the npm source
\* when a git source had that name; the project holding a Button of its
\* own, or not.
InitAdd ==
    /\ configFile \in
          {[cwd |-> NoConfigFile, home |-> NoConfigFile]} \cup
          {[cwd |-> NoConfigFile,
            home |-> SavedFile([sources |-> l, cache |-> DefaultCache])] :
             l \in AddConfigs}
    /\ defaultConfig = DefaultConfigLiteral
    /\ cfgOut = NoCfgOut
    /\ \E inPkg \in {{}, {<<"component", "Button">>},
                      {<<"component", "Button">>, <<"component", "Card">>}} :
          fs = Tree(JoinRoot("templates"), inPkg, "pkg")
    /\ \E version \in {"none", "repo", "repo2"} :
          remote = [files |-> IF version = "none" THEN EmptyFiles
                              ELSE RemoteTree(SrcGit, {<<"component", "Button">>},
                                              version),
                    fault |-> NoFault]
    /\ \E cached \in {"none", "fresh", "stale"}, left \in BOOLEAN :
          /\ cache =
                (IF cached = "none" THEN EmptyFiles
                 ELSE CacheTree(SrcGit, {<<"component", "Button">>}, "repo", 0))
                @@ (IF left
                    THEN CacheTree(SrcNpm, {<<"component", "Card">>}, "old", 0)
                    ELSE EmptyFiles)
          /\ clock = IF cached = "stale" THEN DefaultTtl ELSE TickMs
    /\ project \in {EmptyFiles, Tree("src", {<<"component", "Button">>}, "mine")}
    /\ ft = IdleFetch /\ cm = NoCacheCall /\ ls = IdleListing
    /\ cli = IdleCommand
    /\ QuietGit

NextAdd ==
    AddStart \/ AddName \/ FetchStep \/ FetchThrow \/ AddWrite \/ AddCatch
    \/ AddExit

SpecAdd == InitAdd /\ [][NextAdd]_vars

(***************************************************************************)
(* Pushing to a git source (git-pusher.js).  The repository of the source  *)
(* and the working clone in ~/.ampackage/repos/<source name> are in repo:  *)
(* commits is the store of commits, numbered as they are made, each with   *)
(* its parents and its tree; remote maps the branches of the repository    *)
(* to commits; clone is the working clone with its checked-out branch      *)
(* (head), its local branches (heads), its remote-tracking branches        *)
(* (origin), the upstream of its branches (upstream), the index and       *)
(* the working tree.  Branch names are tuples.                             *)
(***************************************************************************)
MaxCommits == 5

Readme == <<"README">>
MainBranch == <<"main">>
NoClone == [exists |-> FALSE]

\* The content of a file in a tree.
FileIn(tree, file) ==
    IF file \in DOMAIN tree THEN Text(tree[file]) ELSE Null

\* A tree with a file written.
WithFile(tree, file, content) ==
    [q \in DOMAIN tree \cup {file} |-> IF q = file THEN content ELSE tree[q]]

TreeOf(id) == repo.commits[id].tree

\* The commits reachable from a commit, itself included.
RECURSIVE Ancestors(_)
Ancestors(id) ==
    {id} \cup UNION {Ancestors(parent) : parent \in repo.commits[id].parents}

\* The index or working tree after HEAD moved from one tree to another:
\* what was changed locally stays, the rest follows.
Carry(local, from, to) ==
    LET kept == {q \in DOMAIN local \cup DOMAIN to :
                    ~(IF FileIn(local, q) = FileIn(from, q)
                      THEN FileIn(to, q) ELSE FileIn(local, q)).isNull}
    IN  [q \in kept |-> IF FileIn(local, q) = FileIn(from, q)
                        THEN to[q] ELSE local[q]]

\* The tree of the merge of a local commit with a commit of the
\* repository: others change the README only.
Merged(local, theirs) ==
    [q \in DOMAIN local \cup DOMAIN theirs |->
        IF q = Readme \/ q \notin DOMAIN local THEN theirs[q] ELSE local[q]]

BranchNameBroken(type, name, now) == <<"add-", type, name, 0>>

\* `add-${type}-${name}-${Date.now()}`
BranchName(type, name, now) == <<"add-", type, name, now>>

\* `${this.source.url}/compare/${branchName}`
CompareUrl(source, branchName) == <<source.url, "/compare/", branchName>>

\* path.join(basePath, pluralizeType(type), name + ext) below the clone,
\* with basePath = this.source.path || 'templates'.
RepoFile(source, type, name) ==
    TemplateFile(IF source.path = Undef THEN "templates" ELSE source.path,
                 type, name)

\* What pushToRemote returns: false, true, or the branch and URL.
ResultFalse == [kind |-> "false"]
ResultTrue == [kind |-> "true"]
ResultBranch(branchName, url) ==
    [kind |-> "object", branch |-> branchName, url |-> url]

\* The wrapping of the catch blocks.
PushWrap(frame, message) ==
    (IF frame.createPR THEN "Failed to create pull request: "
     ELSE "Failed to push to Git repository: ") \o message

PushThrownBroken(frame, message) ==
    [frame EXCEPT !.pc = "write", !.message = PushWrap(frame, message)]

\* catch (error) { throw new Error(`Failed to ...: ${error.message}`) }
PushThrown(frame, message) ==
    [frame EXCEPT !.pc = "thrown", !.message = PushWrap(frame, message)]

\* The branch that git.push('origin', ...) names.
PushedRefBroken(frame) ==
    IF frame.source.branch = Undef THEN MainBranch ELSE <<frame.source.branch>>

PushedRef(frame) ==
    IF frame.createPR THEN frame.branchName
    ELSE IF frame.source.branch = Undef THEN MainBranch
    ELSE <<frame.source.branch>>

\* The pushes that are run.
PushSources == {SrcGit, SrcLib}
PushContents == {"v1", "v2"}

\* pushToRemote(source, type, name, content, options) is called: a source
\* that is not a github source makes it throw at once.  For the properties
\* the frame remembers the branches at the call (atCall), the clone as
\* ensureRepo left it (updated), the branches when the push returned
\* (atReturn), and, when the call repeats a push that failed after its
\* commit, that commit (retryOf).
PushFrame(source, type, name, content, createPR) ==
    [pc |-> IF source.type # "github" THEN "thrown" ELSE "ensure",
     source |-> source, type |-> type, name |-> name,
     content |-> content, createPR |-> createPR,
     branchName |-> <<>>, base |-> 0, made |-> 0, retryOf |-> 0,
     result |-> ResultFalse,
     message |-> IF source.type # "github"
                 THEN "Pushing to " \o source.type
                         \o " sources is not supported yet"
                 ELSE "",
     atCall |-> [remote |-> repo.remote, clone |-> repo.clone],
     updated |-> NoClone,
     atReturn |-> [remote |-> repo.remote, clone |-> repo.clone]]

\* pushToRemote called on its own.
PushCall ==
    /\ gp.pc \in {"idle", "returned", "thrown"}
    /\ Len(repo.commits) + 2 <= MaxCommits
    /\ \E source \in PushSources, content \in PushContents,
          createPR \in BOOLEAN :
          gp' = PushFrame(source, "component", "Button", content, createPR)
    /\ UNCHANGED <<exceptGit, repo>>

\* git clone: the branch the repository has as HEAD is checked out.
Cloned ==
    [exists |-> TRUE, head |-> MainBranch,
     heads |-> [b \in {MainBranch} |-> repo.remote[MainBranch]],
     origin |-> repo.remote,
     upstream |-> [b \in {MainBranch} |-> MainBranch],
     index |-> TreeOf(repo.remote[MainBranch]),
     work |-> TreeOf(repo.remote[MainBranch])]

\* ensureRepo with the repository reachable or not: fetch and pull in an
\* existing clone, git clone otherwise.  A pull of diverged branches
\* merges or fails, depending on the version and configuration of git
\* (mergesDiverged).
EnsureRepo ==
    /\ gp.pc = "ensure"
    /\ \E online \in BOOLEAN, mergesDiverged \in BOOLEAN :
          LET clone == repo.clone
              next == IF gp.createPR THEN "branch" ELSE "write"
          IN
          IF ~online
          THEN /\ gp' = PushThrown(gp, "Could not resolve host: github.com")
               /\ repo' = repo
          ELSE IF ~clone.exists
          THEN /\ repo' = [repo EXCEPT !.clone = Cloned]
               /\ gp' = [gp EXCEPT !.pc = next, !.updated = Cloned]
          ELSE IF clone.head \notin DOMAIN clone.upstream
          THEN /\ repo' = [repo EXCEPT !.clone.origin = repo.remote]
               /\ gp' = PushThrown(gp,
                     "There is no tracking information for the current branch.")
          ELSE LET mine == clone.heads[clone.head]
                   theirs == repo.remote[clone.upstream[clone.head]]
               IN
               IF theirs \in Ancestors(mine)             \* already up to date
               THEN /\ repo' = [repo EXCEPT !.clone.origin = repo.remote]
                    /\ gp' = [gp EXCEPT !.pc = next, !.updated = repo'.clone]
               ELSE IF mine \in Ancestors(theirs)        \* fast-forward
               THEN /\ repo' = [repo EXCEPT
                          !.clone.origin = repo.remote,
                          !.clone.heads[clone.head] = theirs,
                          !.clone.index = Carry(clone.index, TreeOf(mine),
                                                TreeOf(theirs)),
                          !.clone.work = Carry(clone.work, TreeOf(mine),
                                               TreeOf(theirs))]
                    /\ gp' = [gp EXCEPT !.pc = next, !.updated = repo'.clone]
               ELSE IF ~mergesDiverged
               THEN /\ repo' = [repo EXCEPT !.clone.origin = repo.remote]
                    /\ gp' = PushThrown(gp,
                          "Need to specify how to reconcile divergent branches.")
               ELSE LET tree == Merged(TreeOf(mine), TreeOf(theirs))
                        id == Len(repo.commits) + 1
                    IN  /\ repo' = [repo EXCEPT
                              !.commits = Append(@, [parents |-> {mine, theirs},
                                                     tree |-> tree]),
                              !.clone.origin = repo.remote,
                              !.clone.heads[clone.head] = id,
                              !.clone.index = Carry(clone.index, TreeOf(mine),
                                                    tree),
                              !.clone.work = Carry(clone.work, TreeOf(mine),
                                                   tree)]
                        /\ gp' = [gp EXCEPT !.pc = next,
                                            !.updated = repo'.clone]
    /\ UNCHANGED exceptGit

\* git.checkoutLocalBranch(branchName), which fails when the clone has a
\* branch of that name.  The new branch has no upstream, unless git is
\* configured to give it the upstream of the branch it starts from
\* (branch.autoSetupMerge = inherit).
CheckoutLocalBranchWith(inheritsUpstream) ==
    /\ gp.pc = "branch"
    /\ LET branchName == BranchName(gp.type, gp.name, clock)
           clone == repo.clone
       IN  IF branchName \in DOMAIN clone.heads
           THEN /\ gp' = PushThrown(gp, "A branch of that name already exists.")
                /\ repo' = repo
           ELSE /\ repo' = [repo EXCEPT
                      !.clone.heads = [b \in DOMAIN clone.heads \cup {branchName}
                                          |-> IF b = branchName
                                              THEN clone.heads[clone.head]
                                              ELSE clone.heads[b]],
                      !.clone.upstream =
                          IF inheritsUpstream /\ clone.head \in DOMAIN clone.upstream
                          THEN [b \in DOMAIN clone.upstream \cup {branchName}
                                  |-> IF b = branchName
                                      THEN clone.upstream[clone.head]
                                      ELSE clone.upstream[b]]
                          ELSE clone.upstream,
                      !.clone.head = branchName]
                /\ gp' = [gp EXCEPT !.pc = "write", !.branchName = branchName,
                                    !.base = clone.heads[clone.head]]
    /\ UNCHANGED exceptGit

\* git as it is configured when installed.
CheckoutLocalBranch == CheckoutLocalBranchWith(FALSE)

\* git configured either way.
CheckoutAsConfigured ==
    \E inheritsUpstream \in BOOLEAN : CheckoutLocalBranchWith(inheritsUpstream)

\* fs.ensureDir and fs.writeFile of the template in the clone.
WriteInClone ==
    /\ gp.pc = "write"
    /\ repo' = [repo EXCEPT
          !.clone.work = WithFile(@, RepoFile(gp.source, gp.type, gp.name),
                                  gp.content)]
    /\ gp' = [gp EXCEPT !.pc = "add"]
    /\ UNCHANGED exceptGit

\* git.add(filePath): the file goes into the index as the working tree
\* has it.
GitAdd ==
    /\ gp.pc = "add"
    /\ LET file == RepoFile(gp.source, gp.type, gp.name) IN
       repo' = [repo EXCEPT
          !.clone.index = WithFile(@, file, repo.clone.work[file])]
    /\ gp' = [gp EXCEPT !.pc = "status"]
    /\ UNCHANGED exceptGit

NoFilesChangedBroken(clone) == FALSE

\* status.files.length === 0: the index is the tree of HEAD and the
\* working tree is the index.
NoFilesChanged(clone) ==
    /\ clone.index = TreeOf(clone.heads[clone.head])
    /\ clone.work = clone.index

\* git.status(): with no file changed the push returns false.
GitStatus ==
    /\ gp.pc = "status"
    /\ LET clone == repo.clone
       IN  IF NoFilesChanged(clone)
           THEN gp' = [gp EXCEPT !.pc = "returned", !.result = ResultFalse]
           ELSE gp' = [gp EXCEPT !.pc = "commit"]
    /\ UNCHANGED <<exceptGit, repo>>

CommittedBroken(clone) == TreeOf(clone.heads[clone.head])

\* What git commit records: the whole index of the clone, whoever staged
\* the files in it.
Committed(clone) == clone.index

\* git.commit(message): the index becomes a commit on the checked-out
\* branch.
GitCommit ==
    /\ gp.pc = "commit"
    /\ LET clone == repo.clone
           id == Len(repo.commits) + 1
       IN  /\ repo' = [repo EXCEPT
                 !.commits = Append(@, [parents |-> {clone.heads[clone.head]},
                                        tree |-> Committed(clone)]),
                 !.clone.heads[clone.head] = id]
           /\ gp' = [gp EXCEPT !.pc = "push", !.made = id]
    /\ UNCHANGED exceptGit

\* git.push('origin', ref) with the repository reachable or not: the
\* push needs a local branch of that name and is refused unless it is a
\* fast-forward of the branch in the repository.
GitPush ==
    /\ gp.pc = "push"
    /\ \E online \in BOOLEAN :
          LET ref == PushedRef(gp)
              clone == repo.clone
          IN
          IF ~online
          THEN /\ gp' = PushThrown(gp, "Could not resolve host: github.com")
               /\ repo' = repo
          ELSE IF ref \notin DOMAIN clone.heads
          THEN /\ gp' = PushThrown(gp, "src refspec does not match any")
               /\ repo' = repo
          ELSE IF ref \in DOMAIN repo.remote
                  /\ repo.remote[ref] \notin Ancestors(clone.heads[ref])
          THEN /\ gp' = PushThrown(gp, "Updates were rejected")
               /\ repo' = repo
          ELSE /\ repo' = [repo EXCEPT
                     !.remote = [b \in DOMAIN repo.remote \cup {ref} |->
                                    IF b = ref THEN clone.heads[ref]
                                    ELSE repo.remote[b]],
                     !.clone.origin = [b \in DOMAIN clone.origin \cup {ref} |->
                                    IF b = ref THEN clone.heads[ref]
                                    ELSE clone.origin[b]]]
               /\ gp' = [gp EXCEPT
                     !.pc = "returned",
                     !.atReturn = [remote |-> repo'.remote,
                                   clone |-> repo'.clone],
                     !.result = IF gp.createPR
                                THEN ResultBranch(gp.branchName,
                                         CompareUrl(gp.source, gp.branchName))
                                ELSE ResultTrue]
    /\ UNCHANGED exceptGit

\* Somebody else pushes a commit that changes the README to the main
\* branch of the repository, while no push of ours is running.
OthersPush ==
    /\ gp.pc \in {"idle", "returned", "thrown"}
    /\ Len(repo.commits) + 1 <= MaxCommits
    /\ LET tip == repo.remote[MainBranch]
           id == Len(repo.commits) + 1
           readme == IF TreeOf(tip)[Readme] = "a" THEN "b" ELSE "a"
       IN  repo' = [repo EXCEPT
              !.commits = Append(@, [parents |-> {tip},
                                     tree |-> WithFile(TreeOf(tip), Readme, readme)]),
              !.remote[MainBranch] = id]
    /\ UNCHANGED <<exceptGit, gp>>

\* The repository starts with one commit on main, with or without the
\* component Button, and has not been cloned.
InitGit ==
    /\ QuietConfig
    /\ QuietEnv
    /\ ft = IdleFetch /\ cm = NoCacheCall /\ ls = IdleListing
    /\ project = EmptyFiles /\ cli = IdleCommand
    /\ \E tree \in {WithFile(<< >>, Readme, "a"),
                    WithFile(WithFile(<< >>, Readme, "a"),
                             RepoFile(SrcGit, "component", "Button"), "v1")} :
          repo = [commits |-> <<[parents |-> {}, tree |-> tree]>>,
                  remote |-> [b \in {MainBranch} |-> 1],
                  clone |-> NoClone]
    /\ gp = IdlePusher
    /\ rival = IdlePusher

NextGit ==
    PushCall \/ EnsureRepo \/ CheckoutLocalBranch \/ WriteInClone \/ GitAdd
    \/ GitStatus \/ GitCommit \/ GitPush \/ OthersPush \/ Tick

SpecGit == InitGit /\ [][NextGit]_vars

(***************************************************************************)
(* Pushes to a git source whose configured branch is main or develop, in   *)
(* a repository whose HEAD is main, with git configured either way.        *)
(***************************************************************************)
BranchSources == {SrcGit, SrcDev}

BranchPushCall ==
    /\ gp.pc \in {"idle", "returned", "thrown"}
    /\ Len(repo.commits) + 2 <= MaxCommits
    /\ \E source \in BranchSources, content \in PushContents,
          createPR \in BOOLEAN :
          gp' = PushFrame(source, "component", "Button", content, createPR)
    /\ UNCHANGED <<exceptGit, repo>>

NextBranch ==
    BranchPushCall \/ EnsureRepo \/ CheckoutAsConfigured \/ WriteInClone
    \/ GitAdd \/ GitStatus \/ GitCommit \/ GitPush \/ Tick

SpecBranch == InitGit /\ [][NextBranch]_vars

(***************************************************************************)
(* A local source added with `source add`, then fetched from.              *)
(***************************************************************************)
\* A fetch of a template from one configured source that addSource made
\* a local source.
LocalFetchCall ==
    /\ ft.pc \in {"idle", "returned", "thrown"}
    /\ \E source \in Range(loadConfig.doc.sources), ref \in FetchRefs :
          /\ source.type = "local"
          /\ source.url # Undef
          /\ ft' = FetchFrame(<<source>>, ref[1], ref[2])
    /\ UNCHANGED <<exceptFetch, envVars>>

\* No configuration file; templates in the bundled directory and in the
\* directory /a that `source add` is given.
InitLocal ==
    /\ QuietConfig
    /\ \E inPkg \in SUBSET FetchRefs, inA \in SUBSET FetchRefs :
          fs = Tree(JoinRoot("templates"), inPkg, "pkg") @@ Tree("/a", inA, "a")
    /\ remote = [files |-> EmptyFiles, fault |-> NoFault]
    /\ cache = EmptyFiles
    /\ clock = 0
    /\ ft = IdleFetch /\ cm = NoCacheCall /\ ls = IdleListing
    /\ project = EmptyFiles /\ cli = IdleCommand
    /\ QuietGit

NextLocal == AddSource \/ LocalFetchCall \/ FetchStep \/ FetchThrow

SpecLocal == InitLocal /\ [][NextLocal]_vars

(***************************************************************************)
(* The npm fetcher called on its own.                                      *)
(***************************************************************************)
\* NpmFetcher.fetchFile(type, name, useCache)
NpmFetchFileWith(source, type, name, useCache) ==
    IF useCache THEN NpmFetchFile(source, type, name)
    ELSE Thrown("NPM source fetching not yet implemented", FALSE)

\* NpmFetcher.listTemplates(type, useCache)
NpmListTemplates(source, type, useCache) ==
    IF useCache THEN ListDir(cache, source.name, type) ELSE Listed({})

NpmFetchCall ==
    /\ \E ref \in FetchRefs, useCache \in BOOLEAN :
          ft' = [pc |-> "called", source |-> SrcNpm, type |-> ref[1],
                 name |-> ref[2], useCache |-> useCache,
                 result |-> NpmFetchFileWith(SrcNpm, ref[1], ref[2], useCache)]
    /\ UNCHANGED <<exceptFetch, envVars>>

NpmListCall ==
    /\ \E type \in Range(Types), useCache \in BOOLEAN :
          ls' = [pc |-> "called", source |-> SrcNpm, type |-> type,
                 useCache |-> useCache,
                 result |-> NpmListTemplates(SrcNpm, type, useCache)]
    /\ UNCHANGED exceptList

\* The cache directory of the npm source's name is empty or holds entries
\* written at time 0.
InitNpm ==
    /\ QuietConfig
    /\ fs = EmptyFiles
    /\ remote = [files |-> EmptyFiles, fault |-> NoFault]
    /\ \E refs \in SUBSET FetchRefs : cache = CacheTree(SrcNpm, refs, "old", 0)
    /\ clock = 0
    /\ ft = IdleFetch /\ cm = NoCacheCall /\ ls = IdleListing
    /\ project = EmptyFiles /\ cli = IdleCommand
    /\ QuietGit

NextNpm == NpmFetchCall \/ NpmListCall \/ Tick

SpecNpm == InitNpm /\ [][NextNpm]_vars

(***************************************************************************)
(* Fetching from the configured git source with a configured cache.ttl.    *)
(***************************************************************************)
\* The values of cache.ttl in the configuration document.
ConfiguredTtls == {TickMs, DefaultTtl, 2 * DefaultTtl}

\* A command loads the configuration and calls fetchTemplate with its
\* sources.
ConfiguredFetchCall ==
    /\ ft.pc \in {"idle", "returned", "thrown"}
    /\ \E ref \in FetchRefs :
          ft' = FetchFrame(loadConfig.doc.sources, ref[1], ref[2])
    /\ UNCHANGED <<exceptFetch, envVars>>

\* The configuration names the git source and a cache.ttl; the cache
\* holds entries of the source written at time 0; the repository holds
\* the templates in another version, or is unreachable.
InitTtl ==
    /\ \E ttl \in ConfiguredTtls :
          configFile =
             [cwd |-> NoConfigFile,
              home |-> SavedFile([sources |-> <<SrcGit>>,
                                  cache |-> [enabled |-> TRUE, ttl |-> ttl]])]
    /\ defaultConfig = DefaultConfigLiteral
    /\ cfgOut = NoCfgOut
    /\ fs = EmptyFiles
    /\ \E fault \in {"none", "network"} :
          remote = [files |-> RemoteTree(SrcGit, FetchRefs, "repo2"),
                    fault |-> fault]
    /\ \E refs \in SUBSET FetchRefs : cache = CacheTree(SrcGit, refs, "repo", 0)
    /\ clock = 0
    /\ ft = IdleFetch /\ cm = NoCacheCall /\ ls = IdleListing
    /\ project = EmptyFiles /\ cli = IdleCommand
    /\ QuietGit

NextTtl == ConfiguredFetchCall \/ FetchStep \/ FetchThrow \/ Tick

SpecTtl == InitTtl /\ [][NextTtl]_vars

(***************************************************************************)
(* The push command of the multi-source front end (fetcher.js).            *)
(***************************************************************************)
\* getTemplatesDir(): path.join(packageRoot, 'templates')
getTemplatesDir == JoinRoot("templates")

\* The target source of push: the one named by --source, otherwise the
\* first local source, otherwise the first source; NoSource stands for
\* undefined.
TargetSource(sources, sourceOpt) ==
    LET named == SeqFilter(sources, {x \in Range(sources) : x.name = sourceOpt})
        locals == SeqFilter(sources, {x \in Range(sources) : x.type = "local"})
    IN  IF sourceOpt # Undef
        THEN IF Len(named) > 0 THEN named[1] ELSE NoSource
        ELSE IF Len(locals) > 0 THEN locals[1]
        ELSE IF Len(sources) > 0 THEN sources[1]
        ELSE NoSource

\* path.join(targetDir, 'src', pluralizeType(type), name + ext)
ProjectFile(type, name) == TemplateFile("src", type, name)

KeepsTemplateBroken(files, templateFile, overwrite) ==
    pathExists(files, templateFile)

\* await fs.pathExists(templateFile) && !options.overwrite
KeepsTemplate(files, templateFile, overwrite) ==
    pathExists(files, templateFile) /\ ~overwrite

\* The command has ended with an exit status and what it printed.
PushEnded(frame, exit, report) ==
    [frame EXCEPT !.pc = "done", !.exit = exit, !.report = report]

\* The command lines of push that are run.
PushSourceOptions == {Undef, "local", "lib", "gh", "pkg", "nope"}

\* The action handler up to its first write: the target source, the
\* project file, and for a local target the test for an existing
\* template; for any other target pushToRemote is called.
PushStart ==
    /\ cli.pc = "idle"
    /\ \E sourceOpt \in PushSourceOptions, overwrite \in BOOLEAN,
          pr \in BOOLEAN :
          LET type == "component"
              name == "Button"
              targetSource == TargetSource(loadConfig.doc.sources, sourceOpt)
              sourceFile == ProjectFile(type, name)
              templateFile == TemplateFile(getTemplatesDir, type, name)
              frame == [pc |-> "start", command |-> "push", type |-> type,
                        name |-> name, overwrite |-> overwrite,
                        sourceOpt |-> sourceOpt, pr |-> pr,
                        target |-> targetSource, exit |-> 0, report |-> ""]
          IN
          IF sourceOpt # Undef /\ targetSource = NoSource
          THEN /\ cli' = PushEnded(frame, 1, "Source not found")
               /\ gp' = gp
          ELSE IF ~pathExists(project, sourceFile)
          THEN /\ cli' = PushEnded(frame, 1, "Source file not found")
               /\ gp' = gp
          ELSE IF targetSource = NoSource      \* targetSource.type throws
          THEN /\ cli' = PushEnded(frame, 1, "Error pushing template")
               /\ gp' = gp
          ELSE IF targetSource.type = "local"
          THEN /\ cli' = IF KeepsTemplate(fs, templateFile, overwrite)
                         THEN PushEnded(frame, 0, "Template already exists")
                         ELSE [frame EXCEPT !.pc = "copy"]
               /\ gp' = gp
          ELSE /\ cli' = [frame EXCEPT !.pc = "remote"]
               /\ gp' = PushFrame(targetSource, type, name,
                                  project[sourceFile], pr)
    /\ UNCHANGED <<cfgVars, envVars, ft, cm, ls, project, repo, rival>>

\* fs.ensureDir and fs.copy(sourceFile, templateFile), which may throw.
PushCopy ==
    /\ cli.pc = "copy"
    /\ \E copyOk \in BOOLEAN :
          IF copyOk
          THEN /\ fs' = WriteFile(fs, TemplateFile(getTemplatesDir, cli.type,
                                                   cli.name),
                                  project[ProjectFile(cli.type, cli.name)])
               /\ cli' = PushEnded(cli, 0, "Pushed")
          ELSE /\ fs' = fs
               /\ cli' = PushEnded(cli, 1, "Error pushing template")
    /\ UNCHANGED <<cfgVars, remote, cache, clock, ft, cm, ls, project, gitVars>>

\* pushToRemote has returned or thrown.
PushRemoteOver ==
    /\ cli.pc = "remote"
    /\ gp.pc \in {"returned", "thrown"}
    /\ cli' = IF gp.pc = "thrown"
              THEN PushEnded(cli, 1, "Error pushing template")
              ELSE IF gp.result.kind = "false" THEN PushEnded(cli, 0, "")
              ELSE IF cli.pr THEN PushEnded(cli, 0, "Created pull request")
              ELSE PushEnded(cli, 0, "Pushed")
    /\ UNCHANGED <<exceptCommand, ft, project>>

\* The configured source lists of the runs of push.
PushConfigs == {<<SrcGit, LocalDefaultSource>>, <<SrcLib>>, <<SrcGit>>,
                <<SrcNpm>>, <<>>}

\* A run of push starts with: no configuration file or one of the lists;
\* the project holding the component Button, or not; the bundled
\* directory and the directory of the source lib holding a Button, or
\* not; the repository of the git source never cloned.
InitPush ==
    /\ configFile \in
          {[cwd |-> NoConfigFile, home |-> NoConfigFile]} \cup
          {[cwd |-> NoConfigFile,
            home |-> SavedFile([sources |-> l, cache |-> DefaultCache])] :
             l \in PushConfigs}
    /\ defaultConfig = DefaultConfigLiteral
    /\ cfgOut = NoCfgOut
    /\ \E inPkg \in SUBSET {<<"component", "Button">>},
          inLib \in SUBSET {<<"component", "Button">>} :
          fs = Tree(getTemplatesDir, inPkg, "pkg") @@ Tree("/srv/tpl", inLib, "lib")
    /\ remote = [files |-> EmptyFiles, fault |-> NoFault]
    /\ cache = EmptyFiles
    /\ clock = 0
    /\ project \in {EmptyFiles, Tree("src", {<<"component", "Button">>}, "mine")}
    /\ ft = IdleFetch /\ cm = NoCacheCall /\ ls = IdleListing
    /\ cli = IdleCommand
    /\ \E tree \in {WithFile(<< >>, Readme, "a"),
                    WithFile(WithFile(<< >>, Readme, "a"),
                             RepoFile(SrcGit, "component", "Button"),
                             "Button@mine")} :
          repo = [commits |-> <<[parents |-> {}, tree |-> tree]>>,
                  remote |-> [b \in {MainBranch} |-> 1],
                  clone |-> NoClone]
    /\ gp = IdlePusher
    /\ rival = IdlePusher

NextPush ==
    PushStart \/ PushCopy \/ PushRemoteOver \/ EnsureRepo
    \/ CheckoutLocalBranch \/ WriteInClone \/ GitAdd \/ GitStatus \/ GitCommit
    \/ GitPush

SpecPush == InitPush /\ [][NextPush]_vars

(***************************************************************************)
(* The list command, and the three commands that take --source side by     *)
(* side.                                                                   *)
(***************************************************************************)
\* The action handler of list: loadConfig, the --source filter with
\* process.exit(1) when it leaves nothing, then listAllTemplates.
ListStart ==
    /\ cli.pc = "idle"
    /\ ls.pc = "idle"
    /\ \E sourceOpt \in PushSourceOptions :
          LET sources == FilterSources(loadConfig.doc.sources, sourceOpt)
              unknown == sourceOpt # Undef /\ Len(sources) = 0
          IN  /\ cli' = [pc |-> IF unknown THEN "done" ELSE "listing",
                         command |-> "list", sourceOpt |-> sourceOpt,
                         sources |-> sources,
                         report |-> IF unknown THEN "Source not found" ELSE "",
                         exit |-> IF unknown THEN 1 ELSE 0]
              /\ ls' = IF unknown THEN ls ELSE ListFrame(sources)
    /\ UNCHANGED <<cfgVars, envVars, ft, cm, project, gitVars>>

\* The listing is printed, with the names of the sources when there are
\* several.
ListOver ==
    /\ cli.pc = "listing"
    /\ ls.pc = "returned"
    /\ cli' = [cli EXCEPT !.pc = "done",
                          !.report = IF Len(cli.sources) > 1 THEN "Sources"
                                     ELSE ""]
    /\ UNCHANGED <<exceptCommand, ft, project>>

\* One command is run, in the situations push is run in.
NextCommand ==
    \/ ListStart \/ ListStep \/ ListReturn \/ ListOver
    \/ AddStart \/ AddName \/ FetchStep \/ FetchThrow \/ AddWrite \/ AddCatch
    \/ AddExit
    \/ NextPush

SpecCommand == InitPush /\ [][NextCommand]_vars

(***************************************************************************)
(* loadConfig called on its own, with the files an invocation may find.    *)
(***************************************************************************)
\* A file that readJson cannot parse.
CorruptFile == [state |-> "corrupt"]

OtherCache == [enabled |-> FALSE, ttl |-> 60000]

\* What a configuration file may be: absent, not JSON, or a document with
\* some of the top-level keys.
LoadFiles ==
    {NoConfigFile, CorruptFile,
     JsonFile({}, << >>, OtherCache),
     JsonFile({"cache"}, << >>, OtherCache),
     JsonFile({"sources"}, <<SrcGit>>, OtherCache),
     JsonFile({"sources", "cache"}, << >>, OtherCache)}

\* loadConfig() is called and returns.
LoadConfig ==
    /\ cfgOut' = [op |-> "load", name |-> Undef, url |-> Undef,
                  status |-> "returned", doc |-> loadConfig.doc,
                  isDefault |-> loadConfig.isDefault]
    /\ UNCHANGED <<configFile, defaultConfig, exceptConfig>>

InitLoad ==
    /\ configFile \in [{"cwd", "home"} -> LoadFiles]
    /\ defaultConfig = DefaultConfigLiteral
    /\ cfgOut = NoCfgOut
    /\ QuietEnv
    /\ ft = IdleFetch /\ cm = NoCacheCall /\ ls = IdleListing
    /\ project = EmptyFiles /\ cli = IdleCommand
    /\ QuietGit

NextLoad == LoadConfig \/ AddSource \/ RemoveSource \/ NewProcess

SpecLoad == InitLoad /\ [][NextLoad]_vars

(***************************************************************************)
(* A push to a local source followed by a fetch from that source.          *)
(***************************************************************************)
\* After `push <kind> <name> --overwrite --source S` to a local source has
\* ended with exit status 0, fetchTemplate([S], kind, name) is called.
FetchPushed ==
    /\ cli.pc = "done"
    /\ cli.command = "push"
    /\ cli.exit = 0
    /\ cli.overwrite
    /\ cli.sourceOpt # Undef
    /\ cli.target.type = "local"
    /\ ft.pc = "idle"
    /\ ft' = FetchFrame(<<cli.target>>, cli.type, cli.name)
    /\ UNCHANGED <<exceptFetch, envVars>>

NextRoundTrip == NextPush \/ FetchPushed \/ FetchStep \/ FetchThrow

SpecRoundTrip == InitPush /\ [][NextRoundTrip]_vars

(***************************************************************************)
(* Repeated fetches from the git source through its cache.  A template     *)
(* file in the repository may be an empty file.                            *)
(***************************************************************************)
\* fetchTemplate([the git source], kind, name), once more.
GitFetchCall ==
    /\ ft.pc \in {"idle", "returned", "thrown"}
    /\ \E ref \in FetchRefs : ft' = FetchFrame(<<SrcGit>>, ref[1], ref[2])
    /\ UNCHANGED <<exceptFetch, envVars>>

\* The network goes away or comes back.
Outage ==
    /\ ft.pc \in {"idle", "returned", "thrown"}
    /\ remote' = [remote EXCEPT
                     !.fault = IF @ = "none" THEN "network" ELSE "none"]
    /\ UNCHANGED <<cfgVars, fs, cache, clock, ft, cm, ls, project, cli, gitVars>>

\* The repository holds every template, some of them as empty files; the
\* cache is empty.
InitReadThrough ==
    /\ QuietConfig
    /\ fs = EmptyFiles
    /\ \E emptyOnes \in SUBSET FetchRefs :
          remote = [files |->
                      [q \in {buildRawUrl(SrcGit, r[1], r[2]) : r \in FetchRefs} |->
                          IF \E r \in emptyOnes : buildRawUrl(SrcGit, r[1], r[2]) = q
                          THEN "" ELSE "export"],
                    fault |-> "none"]
    /\ cache = EmptyFiles
    /\ clock = 0
    /\ ft = IdleFetch /\ cm = NoCacheCall /\ ls = IdleListing
    /\ project = EmptyFiles /\ cli = IdleCommand
    /\ QuietGit

NextReadThrough == GitFetchCall \/ FetchStep \/ FetchThrow \/ Tick \/ Outage

SpecReadThrough == InitReadThrough /\ [][NextReadThrough]_vars

(***************************************************************************)
(* addSource and removeSource with names that sources already have.        *)
(***************************************************************************)
\* The names given to the calls: those of the default source and of the
\* git source, and a new one.
GivenNames == {"local", "gh", "x"}

AddNamed ==
    /\ \E name \in GivenNames, saveOk \in BOOLEAN :
          addSource(name, "github", "/b", CliOptions, saveOk)
    /\ UNCHANGED exceptConfig

RemoveNamed ==
    /\ \E name \in GivenNames, saveOk \in BOOLEAN : removeSource(name, saveOk)
    /\ UNCHANGED exceptConfig

\* No file, a file without the key sources, or a file with sources of
\* distinct names.
InitNames ==
    /\ \E home \in {NoConfigFile,
                    JsonFile({"cache"}, << >>, OtherCache),
                    SavedFile([sources |-> <<SrcGit, LocalDefaultSource>>,
                               cache |-> DefaultCache]),
                    SavedFile([sources |-> <<SrcLib>>, cache |-> DefaultCache])} :
          configFile = [cwd |-> NoConfigFile, home |-> home]
    /\ defaultConfig = DefaultConfigLiteral
    /\ cfgOut = NoCfgOut
    /\ QuietEnv
    /\ ft = IdleFetch /\ cm = NoCacheCall /\ ls = IdleListing
    /\ project = EmptyFiles /\ cli = IdleCommand
    /\ QuietGit

NextNames == AddNamed \/ RemoveNamed \/ NewProcess

SpecNames == InitNames /\ [][NextNames]_vars

(***************************************************************************)
(* Two ampackage processes push directly to the same git source at the     *)
(* same time, each its own template.  Both work in the one clone directory *)
(* of the source, and nothing locks it: one of them runs (gp) while the    *)
(* other waits (rival), and the processor may switch between them whenever *)
(* the running one has finished a file or git operation.                   *)
(***************************************************************************)
RacePushCall ==
    /\ gp.pc = "idle"
    /\ \E ref \in FetchRefs, content \in PushContents :
          /\ rival.pc # "idle" => <<rival.type, rival.name>> # ref
          /\ gp' = PushFrame(SrcGit, ref[1], ref[2], content, FALSE)
    /\ UNCHANGED <<exceptGit, repo>>

\* The other process gets the processor.
Switch ==
    /\ gp # rival
    /\ gp' = rival
    /\ rival' = gp
    /\ UNCHANGED <<cfgVars, envVars, ft, cm, ls, project, cli, repo>>

NextRace ==
    RacePushCall \/ Switch \/ EnsureRepo \/ WriteInClone \/ GitAdd
    \/ GitStatus \/ GitCommit \/ GitPush

SpecRace == InitGit /\ [][NextRace]_vars

(***************************************************************************)
(* A direct push to the git source, and the same push run again after it   *)
(* failed: the user repeats the command with the same kind, name and       *)
(* content.                                                                *)
(***************************************************************************)
DirectPushCall ==
    /\ gp.pc \in {"idle", "returned"}
    /\ Len(repo.commits) + 2 <= MaxCommits
    /\ \E content \in PushContents :
          gp' = PushFrame(SrcGit, "component", "Button", content, FALSE)
    /\ UNCHANGED <<exceptGit, repo>>

\* The push that threw is run again.  When the failed run had made its
\* commit (so it was git push that threw), the new run is a retry of that
\* commit.
RetryCall ==
    /\ gp.pc = "thrown"
    /\ gp' = [PushFrame(gp.source, gp.type, gp.name, gp.content, gp.createPR)
                EXCEPT !.retryOf = IF gp.made # 0 THEN gp.made ELSE gp.retryOf]
    /\ UNCHANGED <<exceptGit, repo>>

NextRetry ==
    DirectPushCall \/ RetryCall \/ EnsureRepo \/ WriteInClone \/ GitAdd
    \/ GitStatus \/ GitCommit \/ GitPush \/ OthersPush

SpecRetry == InitGit /\ [][NextRetry]_vars

(***************************************************************************)
(* The git source gh is defined again through addSource, with another url, *)
(* branch or base path, or removed and added again, between fetches.  The  *)
(* repositories hold every template under each definition, each with a    *)
(* content that names the definition.                                      *)
(***************************************************************************)
Redefinitions ==
    {SrcGit, SrcDev, [SrcGit EXCEPT !.url = "https://github.com/org/ui"],
     [SrcGit EXCEPT !.path = "lib"]}

\* The place that the content of a definition's files names.
PlaceOf(source) ==
    RepoPath(source.url) \o "/" \o source.branch \o "/" \o source.path

\* ampackage source add gh <url> --branch <branch> --path <path>
Redefine ==
    /\ \E source \in Redefinitions, saveOk \in BOOLEAN :
          addSource(source.name, source.type, source.url,
                    [branch |-> source.branch, path |-> source.path,
                     default |-> FALSE], saveOk)
    /\ UNCHANGED exceptConfig

\* ampackage source remove gh
RemoveGit ==
    /\ \E saveOk \in BOOLEAN : removeSource(SrcGit.name, saveOk)
    /\ UNCHANGED exceptConfig

\* What the repositories serve: every template under every definition.
RedefinedFiles ==
    [q \in {buildRawUrl(s, r[1], r[2]) : s \in Redefinitions, r \in FetchRefs}
        |-> LET p == CHOOSE p \in Redefinitions \X FetchRefs :
                        buildRawUrl(p[1], p[2][1], p[2][2]) = q
            IN  p[2][2] \o "@" \o PlaceOf(p[1])]

\* The configuration names gh as the repository org/tpl, branch main, and
\* the default cache settings; nothing is cached yet.
InitRedefine ==
    /\ configFile = [cwd |-> NoConfigFile,
                     home |-> SavedFile([sources |-> <<SrcGit>>,
                                         cache |-> DefaultCache])]
    /\ defaultConfig = DefaultConfigLiteral
    /\ cfgOut = NoCfgOut
    /\ fs = EmptyFiles
    /\ remote = [files |-> RedefinedFiles, fault |-> "none"]
    /\ cache = EmptyFiles
    /\ clock = 0
    /\ ft = IdleFetch /\ cm = NoCacheCall /\ ls = IdleListing
    /\ project = EmptyFiles /\ cli = IdleCommand
    /\ QuietGit

NextRedefine ==
    Redefine \/ RemoveGit \/ ConfiguredFetchCall \/ FetchStep \/ FetchThrow
    \/ Tick

SpecRedefine == InitRedefine /\ [][NextRedefine]_vars

(***************************************************************************)
(* Properties of the configuration store.                                  *)
(***************************************************************************)
\* The positions of `sources` that hold the name.
IndexesOf(sources, name) == {i \in 1..Len(sources) : sources[i].name = name}

\* C4: addSource with a name already in the configured list replaces that
\* entry in place: the persisted list has the same length and order, holds
\* exactly one source of that name, with the new location, at the index the
\* old entry had; with a new name the source is appended at the end and the
\* existing entries and their order are unchanged.
C4_AddSourceReplacesInPlaceOrAppends ==
    [][(cfgOut'.op = "addSource" /\ cfgOut'.status = "ok") =>
         LET before == loadConfig.doc.sources
             after == (loadConfig.doc.sources)'
             name == cfgOut'.name
             old == IndexesOf(before, name)
         IN  IF old # {}
             THEN /\ Len(after) = Len(before)
                  /\ Cardinality(IndexesOf(after, name)) = 1
                  /\ IndexesOf(after, name) = old
                  /\ \A i \in old : after[i].url = cfgOut'.url
                  /\ \A i \in (1..Len(before)) \ old : after[i] = before[i]
             ELSE /\ Len(after) = Len(before) + 1
                  /\ \A i \in 1..Len(before) : after[i] = before[i]
                  /\ after[Len(after)].name = name
                  /\ after[Len(after)].url = cfgOut'.url
      ]_vars

\* C4 witness: a successful addSource("x", ...) left "x" in the middle of
\* a persisted list of three, so the entry was replaced where it stood.
C4_Witness ==
    /\ cfgOut.op = "addSource" /\ cfgOut.status = "ok" /\ cfgOut.name = "x"
    /\ configFile[getConfigPath].state = "json"
    /\ Len(loadConfig.doc.sources) = 3
    /\ loadConfig.doc.sources[2].name = "x"
    /\ loadConfig.doc.sources[2].url = cfgOut.url

\* C5: removeSource with a name no configured source has fails with "not
\* found" and leaves the persisted configuration files unchanged; with a
\* name that exists, the persisted list is the old one without the sources
\* of that name, the others in their previous relative order.
C5_RemoveSourceNotFoundOrFiltered ==
    [][cfgOut'.op = "removeSource" =>
         LET before == loadConfig.doc.sources
             after == (loadConfig.doc.sources)'
             name == cfgOut'.name
             old == IndexesOf(before, name)
             kept == (1..Len(before)) \ old
         IN  IF old = {}
             THEN cfgOut'.status = "not_found" /\ configFile' = configFile
             ELSE /\ cfgOut'.status # "not_found"
                  /\ cfgOut'.status = "ok" =>
                        /\ Len(after) = Cardinality(kept)
                        /\ \A i \in kept :
                              after[i - Cardinality({j \in old : j < i})] = before[i]
      ]_vars

\* C5 witness: a removeSource that ended "not found" while a persisted
\* document with two sources exists.
C5_Witness ==
    /\ cfgOut.op = "removeSource" /\ cfgOut.status = "not_found"
    /\ configFile[getConfigPath].state = "json"
    /\ Len(loadConfig.doc.sources) = 2

(***************************************************************************)
(* Properties of the resolution engine.                                    *)
(***************************************************************************)
\* The positions of the call's source list whose fetchFile succeeds.
Suppliers == {i \in 1..Len(ft.sources) :
                 FetchFile(ft.sources[i], ft.type, ft.name).ok}

FetchOver == ft.pc \in {"returned", "thrown"}

\* C1: when at least one source of the list can supply the template,
\* fetchTemplate returns the content and the Source object of the
\* lowest-index source whose fetchFile succeeds, never of a later one.
C1_FirstSupplierWins ==
    (FetchOver /\ Suppliers # {}) =>
        LET first == CHOOSE i \in Suppliers : \A j \in Suppliers : i <= j IN
        /\ ft.pc = "returned"
        /\ ft.source = ft.sources[first]
        /\ ft.content = FetchFile(ft.sources[first], ft.type, ft.name).content

\* C1 witness: the call returned from the second of three sources after
\* the first failed, and the third could have supplied the template too.
C1_Witness ==
    /\ ft.pc = "returned"
    /\ Len(ft.sources) = 3
    /\ Suppliers = {2, 3}
    /\ ft.source = ft.sources[2]

\* C2: when no source of the list can supply the template, fetchTemplate
\* throws, and the message holds, after its heading line, exactly one line
\* "<source name>: <that source's failure message>" per source, in the
\* order of the list.
C2_AggregateListsEverySource ==
    (FetchOver /\ Suppliers = {}) =>
        /\ ft.pc = "thrown"
        /\ Len(ft.message) = Len(ft.sources) + 1
        /\ \A i \in 1..Len(ft.sources) :
              ft.message[i + 1] =
                  ft.sources[i].name \o ": " \o
                  FetchFile(ft.sources[i], ft.type, ft.name).message

\* C2 witness: three sources of three kinds failed, each for its own
\* reason, and the call threw.
C2_Witness ==
    /\ ft.pc = "thrown"
    /\ Len(ft.sources) = 3
    /\ {ft.sources[i].type : i \in 1..3} = {"local", "github", "npm"}
    /\ Cardinality({ft.message[i] : i \in 2..4}) = 3

(***************************************************************************)
(* Properties of the cache manager.                                        *)
(***************************************************************************)
\* C3: after setCachedFile(source, kind, name, content), getCachedFile of
\* the same triple returns exactly that content while the time since the
\* latest set is below ttl, and null once it exceeds ttl; a later set of
\* the triple replaces the content and restarts the age.  A triple never
\* set is a miss.
C3_CacheRoundTrip ==
    cm.last.op = "get" =>
        IF cm.last.key \in DOMAIN cm.written
        THEN LET w == cm.written[cm.last.key]
                 age == cm.last.at - w.at
             IN  /\ age < cm.last.ttl => cm.last.value = Text(w.content)
                 /\ age > cm.last.ttl => cm.last.value = Null
        ELSE cm.last.value = Null

\* C3 witness: a get returned the content of a second set of its triple,
\* at a time when the first set was already older than the ttl.
C3_Witness ==
    /\ cm.last.op = "get"
    /\ cm.last.key \in DOMAIN cm.written
    /\ cm.written[cm.last.key].first < cm.written[cm.last.key].at
    /\ cm.last.at - cm.written[cm.last.key].first > cm.last.ttl
    /\ cm.last.value = Text(cm.written[cm.last.key].content)

(***************************************************************************)
(* Properties of listAllTemplates.                                         *)
(***************************************************************************)
\* A sequence of names in sorted order that holds no name twice.
SortedOnce(names) ==
    \A i, j \in 1..Len(names) : i < j => NameLess(names[i], names[j])

\* The names the sources of the call list for a kind.
ListedBySources(type) ==
    UNION {ListTemplates(source, type).names : source \in Range(ls.sources)}

\* The kinds up to and including the given one, in the order of the walk.
KindsUpTo(type) ==
    {Types[t] : t \in {u \in 1..Len(Types) :
                          \E v \in u..Len(Types) : Types[v] = type}}

\* The same, leaving out a source whose listing of the kind, or of a kind
\* walked before it, throws.
ListedBeforeFailure(type) ==
    UNION {ListTemplates(source, type).names :
             source \in {x \in Range(ls.sources) :
                            \A k \in KindsUpTo(type) : ListTemplates(x, k).ok}}

\* C6 as stated: for each kind the result is the union over all sources of
\* the names each source lists for that kind, each name once, sorted.
C6_UnionOfAllListings ==
    ls.pc = "returned" =>
        \A type \in Range(Types) :
            /\ Range(ls.result[type]) = ListedBySources(type)
            /\ SortedOnce(ls.result[type])

\* C6 amended: for each kind the result is the union over the sources of
\* the names each source lists for that kind, leaving out a source whose
\* listing of that kind or of a kind walked before it threw; each name
\* appears once, in sorted order.
C6_UnionOfListingsBeforeFailure ==
    ls.pc = "returned" =>
        \A type \in Range(Types) :
            /\ Range(ls.result[type]) = ListedBeforeFailure(type)
            /\ SortedOnce(ls.result[type])

\* C6 witness: three sources were listed, two of them expose the component
\* Button, the result holds it once among three components, and one source
\* failed on the way.
C6_Witness ==
    /\ ls.pc = "returned"
    /\ Len(ls.sources) = 3
    /\ Cardinality({source \in Range(ls.sources) :
                       "Button" \in ListTemplates(source, "component").names}) = 2
    /\ Len(ls.result["component"]) = 3
    /\ Len(ls.warned) = 1


(***************************************************************************)
(* Properties of the add command.                                          *)
(***************************************************************************)
\* The content of a template in a source itself: the file of a local
\* source, the file in the repository of a git source.
InSource(source, type, name) ==
    IF source.type = "local"
    THEN LET filePath == TemplateFile(getLocalPath(source), type, name) IN
         IF pathExists(fs, filePath) THEN Text(fs[filePath]) ELSE Null
    ELSE LET url == buildRawUrl(source, type, name) IN
         IF pathExists(remote.files, url) THEN Text(remote.files[url]) ELSE Null

\* The names add has written, by position in the command line.
Added ==
    IF cli.pc = "idle" THEN {}
    ELSE {k \in 1..Len(cli.log) : cli.log[k].outcome = "added"}

Written(k) ==
    LET targetFile == TemplateFile(cli.dest, cli.type, cli.log[k].name) IN
    IF pathExists(project, targetFile) THEN Text(project[targetFile]) ELSE Null

\* C7 as stated: after add has written a name, the file
\* <dest>/<pluralized kind>/<name><ext> below the working directory exists
\* and its content is the content of that template in the source that
\* supplied it.
C7_WrittenFileEqualsSource ==
    \A k \in Added :
        /\ ~Written(k).isNull
        /\ Written(k) = InSource(cli.log[k].source, cli.type, cli.log[k].name)

\* C7: after add has written a name, the file
\* <dest>/<pluralized kind>/<name><ext> below the working directory exists
\* and its content is the content of that template in the source that
\* supplied it, or, when that source is a git or npm source holding a
\* non-empty cache entry younger than one hour, the content of that cache
\* entry.
C7_WrittenFileEqualsSourceOrCache ==
    \A k \in Added :
        LET source == cli.log[k].source
            name == cli.log[k].name
            cachePath == getCachePath(source, cli.type, name)
        IN  /\ ~Written(k).isNull
            /\ IF source.type \in {"github", "npm"} /\ ~cli.log[k].viaHttp
               THEN /\ isCacheValid(cachePath, DefaultTtl)
                    /\ cache[cachePath].content # ""
                    /\ Written(k) = Text(cache[cachePath].content)
               ELSE Written(k) = InSource(source, cli.type, name)

\* C7 witness: add --dest lib has written Button from the git source out
\* of the cache while the repository holds another version, and Card from
\* the bundled directory.
C7_Witness ==
    /\ cli.pc = "done" /\ cli.dest = "lib" /\ Added = {1, 2}
    /\ cli.log[1].source = SrcGit /\ ~cli.log[1].viaHttp
    /\ InSource(SrcGit, "component", "Button") = Text("Button@repo2")
    /\ Written(1) = Text("Button@repo")
    /\ cli.log[2].source = LocalDefaultSource
    /\ Written(2) = Text("Card@pkg")

\* The loop of add is at a name whose target file exists, without
\* --overwrite.
AtExistingTarget ==
    /\ cli.pc = "loop" /\ cli.i <= Len(cli.names)
    /\ pathExists(project, TemplateFile(cli.dest, cli.type, cli.names[cli.i]))
    /\ ~cli.overwrite

C10_EachNameOnItsOwn ==
    cli.pc = "done" =>
        /\ cli.entered =>
              /\ Len(cli.log) = Len(cli.names)
              /\ \A k \in 1..Len(cli.names) :
                    /\ cli.log[k].name = cli.names[k]
                    /\ cli.log[k].outcome # "exists" => cli.log[k].fetched
                    /\ cli.log[k].outcome = "added" =>
                          Written(k) = Text(cli.log[k].content)
                    /\ (cli.log[k].outcome = "failed"
                          /\ cli.log[k].source = NoSource) =>
                             \A source \in Range(cli.sources) :
                                ~FetchFile(source, cli.type, cli.names[k]).ok
        /\ cli.exit # 0 <=>
              (~cli.entered \/ \E k \in 1..Len(cli.log) :
                                   cli.log[k].outcome = "failed")

\* C10 witness: add Card Button ended with a non-zero status after Card
\* failed in every source and Button was written all the same.
C10_Witness ==
    /\ cli.pc = "done" /\ cli.exit = 1
    /\ cli.names = <<"Card", "Button">> /\ Len(cli.log) = 2
    /\ cli.log[1].outcome = "failed" /\ cli.log[1].fetched
    /\ cli.log[2].outcome = "added"
    /\ ~Written(2).isNull

(***************************************************************************)
(* Properties of the review-branch push.                                   *)
(***************************************************************************)
\* A push with --pr has returned the branch and the URL.
ReviewPushed ==
    gp.pc = "returned" /\ gp.createPR /\ gp.result.kind = "object"

\* What C9 says of the branch, the commit and the result, and of the main
\* branch of the repository, when the push returned.
ReviewBranchMade ==
    LET branch == gp.result.branch
        file == RepoFile(gp.source, gp.type, gp.name)
        after == gp.atReturn
    IN  /\ branch = BranchName(gp.type, gp.name, branch[4])
        /\ branch[4] <= clock
        /\ branch \notin DOMAIN gp.atCall.remote
        /\ gp.atCall.clone.exists => branch \notin DOMAIN gp.atCall.clone.heads
        /\ branch \in DOMAIN after.clone.heads
        /\ after.clone.heads[branch] = gp.made
        /\ repo.commits[gp.made].parents = {gp.base}
        /\ gp.base = gp.updated.heads[gp.updated.head]
        /\ FileIn(TreeOf(gp.made), file) = Text(gp.content)
        /\ branch \in DOMAIN after.remote
        /\ after.remote[branch] = gp.made
        /\ gp.result.url = <<gp.source.url, "/compare/", branch>>
        /\ after.remote[MainBranch] = gp.atCall.remote[MainBranch]

\* C9 as stated: a successful review-branch push has made a new branch
\* with a commit of the file on it, pushed it, and returned the branch
\* name and the compare URL; the main branch points, in the repository and
\* in the clone, to the commit it pointed to when the push was called.
C9_MainBranchAsAtTheCall ==
    ReviewPushed =>
        /\ ReviewBranchMade
        /\ gp.atCall.clone.exists =>
              gp.atReturn.clone.heads[MainBranch]
                 = gp.atCall.clone.heads[MainBranch]

\* C9: a successful review-branch push has made a new branch with a commit
\* of the file on it, pushed it, and returned the branch name and the
\* compare URL; the main branch points, in the repository, to the commit
\* it pointed to when the push was called and, in the clone, to the commit
\* it pointed to once ensureRepo had cloned or updated the clone; the new
\* commit is on neither.
C9_MainBranchAsAfterTheUpdate ==
    ReviewPushed =>
        /\ ReviewBranchMade
        /\ gp.atReturn.clone.heads[MainBranch] = gp.updated.heads[MainBranch]
        /\ gp.made \notin Ancestors(gp.atReturn.clone.heads[MainBranch])
        /\ gp.made \notin Ancestors(gp.atReturn.remote[MainBranch])

\* C9 witness: a review-branch push has returned in a clone that was
\* behind the repository when the push was called.
C9_Witness ==
    /\ ReviewPushed
    /\ gp.atCall.clone.exists
    /\ gp.atCall.clone.heads[MainBranch] # gp.atCall.remote[MainBranch]
    /\ gp.atReturn.remote[gp.result.branch] = gp.made
    /\ gp.atReturn.clone.head = gp.result.branch

(***************************************************************************)
(* Properties of the local fetcher on sources made by addSource.           *)
(***************************************************************************)
\* The directory a location given to `source add` names: itself when
\* absolute, below the package root otherwise.
LocationDir(location) ==
    IF isAbsolute(location) THEN location ELSE JoinRoot(location)

\* A fetch from one local source that addSource made is over.
LocalFetchOver ==
    /\ FetchOver
    /\ Len(ft.sources) = 1
    /\ ft.sources[1].type = "local"
    /\ ft.sources[1].url # Undef

\* C11 as stated: a fetch from a local source made by
\* addSource(name, 'local', L, options) succeeds exactly when the template
\* file exists under L, with the content of that file, and fails with
\* 'Template not found' otherwise.
C11_LocalSourceReadsItsLocation ==
    LocalFetchOver =>
        LET file == TemplateFile(LocationDir(ft.sources[1].url), ft.type, ft.name)
        IN  IF pathExists(fs, file)
            THEN ft.pc = "returned" /\ ft.content = fs[file]
            ELSE /\ ft.pc = "thrown"
                 /\ ft.errors = <<ErrorLine(ft.sources[1],
                                            NotFoundMessage(ft.type, ft.name))>>

\* C11 witness: the template exists under the location /a of the source
\* and not in the bundled directory, and the fetch from the source failed.
C11_Witness ==
    /\ LocalFetchOver
    /\ ft.sources[1].url = "/a"
    /\ pathExists(fs, TemplateFile("/a", ft.type, ft.name))
    /\ ~pathExists(fs, TemplateFile(JoinRoot("templates"), ft.type, ft.name))
    /\ ft.pc = "thrown"

(***************************************************************************)
(* Properties of the npm fetcher.                                          *)
(***************************************************************************)
\* C12 as stated: every fetchFile and every listTemplates call of an npm
\* source fails with the 'not yet implemented' error, whatever the cache
\* holds and whatever useCache is; none returns content or a list.
C12_NpmAlwaysNotImplemented ==
    /\ ft.pc = "called" =>
          /\ ~ft.result.ok
          /\ ft.result.message = "NPM source fetching not yet implemented"
    /\ ls.pc = "called" => ~ls.result.ok

\* C12 witness: fetchFile of the npm source returned the content of a
\* cache entry, and listTemplates returned a list.
C12_Witness ==
    /\ ft.pc = "called" /\ ft.result.ok /\ ft.result.content = "Button@old"
    /\ ls.pc = "called" /\ ls.result.ok /\ ~ls.useCache

(***************************************************************************)
(* Properties of the TTL of a git-source fetch.                            *)
(***************************************************************************)
\* fetchFile of the git source is about to run, and the cache holds an
\* entry for the template.
GitFetchWithEntry ==
    /\ ft.pc = "loop" /\ ft.idx <= Len(ft.sources)
    /\ ft.sources[ft.idx].type = "github"
    /\ pathExists(cache, getCachePath(ft.sources[ft.idx], ft.type, ft.name))

\* The age of the entry of the template that is being fetched.
EntryAge ==
    clock - cache[getCachePath(ft.sources[ft.idx], ft.type, ft.name)].mtime

\* The step served the cache entry: the content returned is the entry's
\* and no request was made.
ServedFromCache ==
    /\ ft'.pc = "returned"
    /\ ~ft'.tried[Len(ft'.tried)].http
    /\ ft'.content
          = cache[getCachePath(ft.sources[ft.idx], ft.type, ft.name)].content

\* C13 as stated: with cache.ttl = T in the configuration document, a
\* git-source fetch serves an existing cache entry of age a exactly when
\* a < T.
C13_ConfiguredTtlDecides ==
    [][(GitFetchWithEntry /\ ft' # ft) =>
          (ServedFromCache <=> EntryAge < loadConfig.doc.cache.ttl)]_vars

\* C13 witness: with cache.ttl of half an hour configured, a fetch has
\* returned the content of a cache entry that is half an hour old.
C13_Witness ==
    /\ loadConfig.doc.cache.ttl = TickMs
    /\ clock = TickMs
    /\ ft.pc = "returned" /\ ft.source = SrcGit
    /\ ~ft.tried[1].http
    /\ ft.content = "Button@repo"
    /\ cache[getCachePath(SrcGit, ft.type, ft.name)].mtime = 0

(***************************************************************************)
(* Properties of the push command with a local target.                     *)
(***************************************************************************)
\* The template file a local push writes.
PushDestination == TemplateFile(getTemplatesDir, "component", "Button")

\* The step of push that reaches the branch of a local target.
LocalPushDecides ==
    /\ cli.pc = "idle"
    /\ cli'.pc # "idle"
    /\ cli'.command = "push"
    /\ pathExists(project, ProjectFile(cli'.type, cli'.name))
    /\ cli'.target # NoSource
    /\ cli'.target.type = "local"

C14_Overwritten ==
    /\ cli.pc = "done"
    /\ cli.command = "push"
    /\ cli.overwrite
    /\ cli.report = "Pushed"
    /\ cli.target # NoSource
    /\ cli.target.type = "local"
    /\ fs[PushDestination] = "Button@mine"

(***************************************************************************)
(* Properties of the direct push.                                          *)
(***************************************************************************)
\* A direct push has reported success.
DirectPushSucceeded ==
    /\ gp.pc = "returned"
    /\ ~gp.createPR
    /\ gp.result = ResultTrue

\* The branch of the repository holds the pushed content of the template.
BranchHoldsPushed(branches, branch) ==
    /\ branch \in DOMAIN branches
    /\ FileIn(TreeOf(branches[branch]),
              RepoFile(gp.source, gp.type, gp.name)) = Text(gp.content)

\* C15: when a direct push to a git source with configured branch B has
\* reported success, branch B of the repository points at a commit that
\* holds the template file with the pushed content, whatever B is and
\* whatever branch the clone has checked out.
C15_ConfiguredBranchHoldsPushed ==
    DirectPushSucceeded => BranchHoldsPushed(gp.atReturn.remote, PushedRef(gp))

\* A direct push reported success with the clone on another branch than
\* the configured one.
C15_Witness ==
    /\ DirectPushSucceeded
    /\ gp.atReturn.clone.head # PushedRef(gp)

\* A direct push with the clone on the configured branch.
C15_OnConfiguredBranch ==
    (DirectPushSucceeded /\ gp.atReturn.clone.head = PushedRef(gp))
        => BranchHoldsPushed(gp.atReturn.remote, PushedRef(gp))

\* A direct push to a branch the clone has not checked out, with git as
\* installed, never reports success.
C15_OtherBranchNeverSucceeds ==
    (DirectPushSucceeded /\ gp.atReturn.clone.head # PushedRef(gp))
        => gp.atReturn.clone.head \in DOMAIN gp.atReturn.clone.upstream

\* A direct push, past ensureRepo, of a content that the template file has
\* at HEAD of the clone as ensureRepo left it.
IdenticalDirectPush ==
    /\ gp.pc \in {"write", "add", "status"}
    /\ ~gp.createPR
    /\ gp.updated.exists
    /\ FileIn(TreeOf(gp.updated.heads[gp.updated.head]),
              RepoFile(gp.source, gp.type, gp.name)) = Text(gp.content)

\* C16: a direct push whose content is the content the file has at HEAD of
\* the clone makes no commit and no push, leaves the clone's branches and
\* the repository as they are, and returns false without throwing.
C16_IdenticalContentIsNoOp ==
    [][(IdenticalDirectPush /\ gp' # gp) =>
          /\ repo'.commits = repo.commits
          /\ repo'.remote = repo.remote
          /\ repo'.clone.heads = repo.clone.heads
          /\ repo'.clone.index = repo.clone.index
          /\ gp'.pc \in {"add", "status", "returned"}
          /\ gp'.pc = "returned" => gp'.result = ResultFalse]_vars

\* A direct push of the content at HEAD returned false.
C16_Witness ==
    /\ gp.pc = "returned"
    /\ ~gp.createPR
    /\ gp.result = ResultFalse
    /\ gp.made = 0
    /\ gp.updated.exists
    /\ FileIn(TreeOf(gp.updated.heads[gp.updated.head]),
              RepoFile(gp.source, gp.type, gp.name)) = Text(gp.content)

(***************************************************************************)
(* Properties of the names of review branches.                             *)
(***************************************************************************)
\* The review branches of a kind and name that the clone has.
ReviewBranches(type, name) ==
    {b \in DOMAIN repo.clone.heads :
        Len(b) = 4 /\ b = BranchName(type, name, b[4])}

\* The step in which a review push names its branch.
NamesBranch ==
    /\ gp.pc = "branch"
    /\ gp' # gp

C17_SameReading ==
    /\ gp.pc = "thrown"
    /\ gp.createPR
    /\ gp.message = PushWrap(gp, "A branch of that name already exists.")

(***************************************************************************)
(* Properties of ensureRepo within a push.                                 *)
(***************************************************************************)
\* What git says when clone, fetch or pull fails.
EnsureFailures ==
    {"Could not resolve host: github.com",
     "There is no tracking information for the current branch.",
     "Need to specify how to reconcile divergent branches."}

\* The step of a push that ensures the clone.
EnsuresClone ==
    /\ gp.pc = "ensure"
    /\ gp' # gp

\* The template file in the clone's working tree and index, the local
\* branches and the commits, as far as a push changes them.
PushedInto(r) ==
    [commits |-> r.commits, remote |-> r.remote,
     work |-> IF r.clone.exists THEN r.clone.work ELSE << >>,
     index |-> IF r.clone.exists THEN r.clone.index ELSE << >>,
     heads |-> IF r.clone.exists THEN r.clone.heads ELSE << >>]

\* C18: the first step of a git push ensures the clone: an absent clone is
\* cloned, an existing one fetched and pulled; when that fails the push
\* throws with git's message wrapped and nothing is written, staged,
\* committed or pushed.  Files are written, staged, committed and pushed
\* only by a push whose ensureRepo has succeeded.
C18_EnsureBeforeWrite ==
    /\ [][EnsuresClone =>
            IF gp'.pc = "thrown"
            THEN /\ \E m \in EnsureFailures : gp'.message = PushWrap(gp, m)
                 /\ PushedInto(repo') = PushedInto(repo)
                 /\ gp'.updated = NoClone
            ELSE /\ gp'.pc \in {"branch", "write"}
                 /\ repo'.clone.exists
                 /\ repo'.clone.origin = repo.remote
                 /\ ~repo.clone.exists => repo'.clone = Cloned
                 /\ gp'.updated = repo'.clone]_vars
    /\ [][(PushedInto(repo') # PushedInto(repo) /\ gp' # gp) =>
            \/ gp.pc = "ensure"
            \/ gp.updated.exists]_vars
    /\ [](gp.pc \in {"branch", "write", "add", "status", "commit", "push"}
            => gp.updated.exists)

\* A push has failed because the pull of its ensureRepo failed.
C18_Witness ==
    /\ gp.pc = "thrown"
    /\ gp.source.type = "github"
    /\ gp.updated = NoClone
    /\ gp.atCall.clone.exists
    /\ gp.message = PushWrap(gp,
          "Need to specify how to reconcile divergent branches.")
    /\ gp.made = 0

(***************************************************************************)
(* Properties of --source.                                                 *)
(***************************************************************************)
\* A command starts with --source naming no configured source.
StartsWithUnknownSource ==
    /\ cli.pc = "idle"
    /\ cli'.pc # "idle"
    /\ cli'.sourceOpt # Undef
    /\ \A s \in Range(loadConfig.doc.sources) : s.name # cli'.sourceOpt

\* C19: list, add and push with a --source that names no configured
\* source end in their first step with 'Source not found' and exit status
\* 1; no fetch, listing or push has been started and no file of the
\* project, of a templates directory, of the cache or of a clone has been
\* written.
C19_UnknownSourceFailsAtOnce ==
    /\ [][StartsWithUnknownSource =>
            /\ cli'.pc = "done"
            /\ cli'.exit = 1
            /\ cli'.report = "Source not found"
            /\ UNCHANGED <<cfgVars, envVars, ft, cm, ls, project, gitVars>>]_vars
    /\ []((cli.pc = "done" /\ cli.report = "Source not found") =>
            /\ ft = IdleFetch /\ ls = IdleListing /\ gp = IdlePusher
            /\ cache = EmptyFiles
            /\ ~repo.clone.exists)

\* push was given a --source that names no configured source.
C19_Witness ==
    /\ cli.pc = "done"
    /\ cli.command = "push"
    /\ cli.sourceOpt = "nope"
    /\ cli.report = "Source not found"
    /\ cli.exit = 1
    /\ pathExists(project, ProjectFile(cli.type, cli.name))

\* list and add were.
C19_ListUnknown ==
    cli.pc = "done" /\ cli.command = "list" /\ cli.exit = 1

C19_AddUnknown ==
    cli.pc = "done" /\ cli.command = "add" /\ cli.exit = 1 /\ ~cli.entered

(***************************************************************************)
(* Properties of loadConfig.                                               *)
(***************************************************************************)
\* The file loadConfig reads: the one in the working directory when there
\* is one, otherwise the one in the home directory.
ChosenFile ==
    IF configFile["cwd"] # NoConfigFile THEN configFile["cwd"]
    ELSE configFile["home"]

\* The step in which loadConfig is called and returns.
Loads ==
    /\ cfgOut'.op = "load"
    /\ UNCHANGED <<configFile, defaultConfig>>

C20_Unparsable ==
    /\ cfgOut.op = "load"
    /\ configFile["cwd"] = CorruptFile
    /\ configFile["home"].state = "json"
    /\ cfgOut.doc = DefaultConfigLiteral

(***************************************************************************)
(* Properties of push followed by fetch.                                   *)
(***************************************************************************)
\* The fetch that follows a push to a local source is over.
RoundTripOver ==
    /\ cli.pc = "done"
    /\ cli.command = "push"
    /\ ft.pc \in {"returned", "thrown"}

\* C21: for every configured local source S, whatever its path, the fetch
\* from S that follows a successful `push --overwrite --source S` of a
\* project file returns the content of that project file.
C21_PushThenFetchRoundTrip ==
    RoundTripOver =>
        /\ ft.pc = "returned"
        /\ ft.content = project[ProjectFile(cli.type, cli.name)]

\* The fetch after a push to the local source with the path /srv/tpl did
\* not return what was pushed.
C21_Witness ==
    /\ RoundTripOver
    /\ cli.target = SrcLib
    /\ ~(ft.pc = "returned"
         /\ ft.content = project[ProjectFile(cli.type, cli.name)])

\* The round trip on the source whose path is the bundled directory.
C21_BundledDirectory ==
    (RoundTripOver /\ getLocalPath(cli.target) = getTemplatesDir) =>
        /\ ft.pc = "returned"
        /\ ft.content = project[ProjectFile(cli.type, cli.name)]

C21_BundledReached ==
    /\ RoundTripOver
    /\ cli.target = LocalDefaultSource
    /\ ft.pc = "returned"
    /\ ft.content = "Button@mine"

(***************************************************************************)
(* Properties of the order of attempts in fetchTemplate.                   *)
(***************************************************************************)
\* The attempts so far were made on the sources 1, 2, ... in that order,
\* and every attempt but the last has failed.
AttemptsInOrder ==
    \A k \in 1..Len(ft.tried) :
        /\ ft.tried[k].index = k
        /\ k < Len(ft.tried) => ~ft.tried[k].ok

\* C22: within a call of fetchTemplate the sources are attempted one at a
\* time in list order; a source is attempted only after all sources before
\* it have failed; after the first success no further source is attempted;
\* an attempt on a source writes no cache entry of another source.
C22_OneAtATimeInOrder ==
    /\ [](ft.pc # "idle" =>
            /\ AttemptsInOrder
            /\ ft.pc = "loop" =>
                  /\ Len(ft.tried) = ft.idx - 1
                  /\ \A k \in 1..Len(ft.tried) : ~ft.tried[k].ok
            /\ ft.pc = "returned" =>
                  /\ Len(ft.tried) = ft.idx
                  /\ ft.tried[ft.idx].ok
                  /\ ft.source = ft.sources[ft.idx]
            /\ ft.pc = "thrown" =>
                  /\ Len(ft.tried) = Len(ft.sources)
                  /\ \A k \in 1..Len(ft.tried) : ~ft.tried[k].ok)
    /\ [][(ft.pc = "loop" /\ ft' # ft /\ ft.idx <= Len(ft.sources)) =>
            \A q \in DOMAIN cache' :
                (q \notin DOMAIN cache \/ cache'[q] # cache[q])
                    => q[1] = ft.sources[ft.idx].name]_vars

\* The second of three sources supplied the template; the third was not
\* attempted.
C22_Witness ==
    /\ ft.pc = "returned"
    /\ Len(ft.sources) = 3
    /\ ft.idx = 2
    /\ Len(ft.tried) = 2
    /\ ~ft.tried[1].ok
    /\ ft.tried[2].ok

(***************************************************************************)
(* Properties of read-through caching.                                     *)
(***************************************************************************)
\* fetchFile of a git source runs in this step.
GitFetchRuns ==
    /\ ft.pc = "loop" /\ ft.idx <= Len(ft.sources)
    /\ ft.sources[ft.idx].type = "github"
    /\ ft' # ft

\* The cache entry of the template being fetched.
FetchedEntryPath == getCachePath(ft.sources[ft.idx], ft.type, ft.name)

\* The step made the request and, when that succeeded, wrote the body to
\* the cache entry and returned it.
ReadThrough ==
    /\ ft'.tried[Len(ft'.tried)].http
    /\ ft'.pc = "returned" =>
          /\ ft'.content
                = remote.files[buildRawUrl(ft.sources[ft.idx], ft.type, ft.name)]
          /\ pathExists(cache', FetchedEntryPath)
          /\ cache'[FetchedEntryPath].content = ft'.content

\* C23: a fetch from a git source with a cache entry younger than the time
\* to live returns the entry's content without a request, whatever the
\* content is; without such an entry it makes the request and on success
\* writes the body to the cache entry and returns it.
C23_ReadThroughForEveryContent ==
    [][GitFetchRuns =>
          IF pathExists(cache, FetchedEntryPath) /\ EntryAge < 3600000
          THEN ServedFromCache /\ cache' = cache
          ELSE ReadThrough]_vars

\* A fetch has failed on the network while the cache holds an entry of
\* the template, younger than the time to live, whose content is empty.
C23_Witness ==
    /\ ft.pc = "thrown"
    /\ remote.fault = "network"
    /\ pathExists(cache, getCachePath(SrcGit, ft.type, ft.name))
    /\ cache[getCachePath(SrcGit, ft.type, ft.name)].content = ""
    /\ clock - cache[getCachePath(SrcGit, ft.type, ft.name)].mtime < 3600000

\* The same with entries that are not empty.
C23_ReadThroughUnlessEmpty ==
    [][GitFetchRuns =>
          IF /\ pathExists(cache, FetchedEntryPath) /\ EntryAge < 3600000
             /\ cache[FetchedEntryPath].content # ""
          THEN ServedFromCache /\ cache' = cache
          ELSE ReadThrough]_vars

(***************************************************************************)
(* Properties of a failing source in listAllTemplates.                     *)
(***************************************************************************)
\* The sources of the call whose listing of every kind succeeds.
ListingSources ==
    {source \in Range(ls.sources) :
        \A type \in Range(Types) : ListTemplates(source, type).ok}

\* C24: listAllTemplates never throws; a source whose listing fails is
\* warned about, and the result holds, for every kind, every name listed
\* by every source of the list whose listing does not fail, whether it
\* comes before or after a failing one.
C24_FailingSourceDoesNotAbort ==
    /\ ls.pc \in {"idle", "loop", "returned"}
    /\ ls.pc = "returned" =>
          /\ Range(ls.warned) =
                {source.name : source \in Range(ls.sources) \ ListingSources}
          /\ \A source \in ListingSources, type \in Range(Types) :
                ListTemplates(source, type).names \subseteq Range(ls.result[type])

\* The second of three sources failed; the first and the third each list
\* a name the other does not, and the result has both.
C24_Witness ==
    /\ ls.pc = "returned"
    /\ Len(ls.sources) = 3
    /\ ls.warned = <<ls.sources[2].name>>
    /\ \E type \in Range(Types) :
          /\ ListTemplates(ls.sources[1], type).names
                \ ListTemplates(ls.sources[3], type).names # {}
          /\ ListTemplates(ls.sources[3], type).names
                \ ListTemplates(ls.sources[1], type).names # {}
          /\ ListTemplates(ls.sources[1], type).names
                \cup ListTemplates(ls.sources[3], type).names
                   \subseteq Range(ls.result[type])

(***************************************************************************)
(* Properties of the names of the configured sources.                      *)
(***************************************************************************)
\* No two entries of a source list have the same name.
DistinctNames(sources) ==
    \A i, j \in 1..Len(sources) : i # j => sources[i].name # sources[j].name

\* C25: after any sequence of addSource and removeSource calls that starts
\* from source lists with distinct names, the source list in a
\* configuration file, and the list loadConfig returns, hold no name twice.
C25_NamesStayUnique ==
    /\ \A place \in {"cwd", "home"} :
          (configFile[place].state = "json"
              /\ "sources" \in configFile[place].keys)
             => DistinctNames(configFile[place].sources)
    /\ DistinctNames(loadConfig.doc.sources)

\* addSource was given the name of a persisted source a second time, and
\* the persisted list has three sources.
C25_Witness ==
    /\ cfgOut.op = "addSource"
    /\ cfgOut.status = "ok"
    /\ configFile["home"].state = "json"
    /\ Len(configFile["home"].sources) = 3
    /\ \E i \in 1..3 :
          /\ configFile["home"].sources[i].name = cfgOut.name
          /\ i < 3

(***************************************************************************)
(* Properties of two direct pushes racing in one clone                     *)
(***************************************************************************)
\* The push of the frame changes its file: the branch that ensureRepo left
\* checked out does not have the file with the pushed content.
HadChange(frame) ==
    /\ frame.updated.exists
    /\ FileIn(TreeOf(frame.updated.heads[frame.updated.head]),
              RepoFile(frame.source, frame.type, frame.name))
          # Text(frame.content)

\* The bad state: the commit that one push made holds the file the other
\* wrote and staged, and the other has returned false ("nothing to
\* commit") without a commit of its own.
SweptUp(loser, winner) ==
    /\ loser.pc = "returned" /\ loser.result = ResultFalse
    /\ loser.made = 0
    /\ HadChange(loser)
    /\ winner.pc # "idle" /\ winner.made # 0
    /\ FileIn(TreeOf(winner.made),
              RepoFile(loser.source, loser.type, loser.name))
          = Text(loser.content)

\* C26: two direct pushes to one git source can interleave so that the
\* commit of one holds the file that the other wrote and staged, and the
\* other then returns false without having committed or pushed.  What
\* makes it so: git commit records the whole index, the file staged by the
\* waiting process included; and a direct push that had a change returns
\* false only when the other's commit has taken that change.  The bad
\* state itself is C26_Witness.
C26_ConcurrentPushesRace ==
    /\ [][(gp.pc = "commit" /\ gp'.pc = "push" /\ rival' = rival) =>
            /\ repo'.commits[gp'.made].tree = repo.clone.index
            /\ rival.pc = "status" =>
                  FileIn(repo'.commits[gp'.made].tree,
                         RepoFile(rival.source, rival.type, rival.name))
                     = Text(rival.content)]_vars
    /\ [](\A pair \in {<<gp, rival>>, <<rival, gp>>} :
            (/\ pair[1].pc = "returned"
             /\ pair[1].result = ResultFalse
             /\ HadChange(pair[1]))
            => SweptUp(pair[1], pair[2]))

C26_Witness ==
    SweptUp(gp, rival) \/ SweptUp(rival, gp)

(***************************************************************************)
(* Properties of a push that is run again                                  *)
(***************************************************************************)
\* The run is a retry of a push whose git push failed, and it has returned:
\* the repository was reachable at each of its steps.
RetryReturned ==
    /\ gp.pc = "returned"
    /\ gp.retryOf # 0

\* The configured branch of the repository has the file as it was pushed.
Delivered ==
    FileIn(TreeOf(repo.remote[PushedRef(gp)]),
           RepoFile(gp.source, gp.type, gp.name)) = Text(gp.content)

\* C27: when a direct push made its commit and failed at git push, the
\* same push run again with the repository reachable ends with the
\* configured branch of the repository holding the file with that content.
C27_RetryDelivers ==
    [](RetryReturned => Delivered)

\* The retry has returned false; the commit of the failed run is in the
\* clone's branch and not in the repository, which lacks the content.
C27_Witness ==
    /\ RetryReturned
    /\ gp.result = ResultFalse
    /\ gp.retryOf \in Ancestors(repo.clone.heads[PushedRef(gp)])
    /\ gp.retryOf \notin Ancestors(repo.remote[PushedRef(gp)])
    /\ ~Delivered

\* What the retry does instead: it finds nothing to commit, returns false
\* and leaves the repository as it was.
C27_RetryPushesNothing ==
    [][(gp.pc \in {"ensure", "write", "add", "status"} /\ gp.retryOf # 0) =>
          /\ repo'.remote = repo.remote
          /\ gp'.pc \notin {"commit", "push"}
          /\ gp'.pc = "returned" => gp'.result = ResultFalse]_vars

(***************************************************************************)
(* Properties of the clone between pushes                                  *)
(***************************************************************************)
\* A review-branch push has returned, with a branch pushed or with
\* "nothing to commit".
ReviewPushReturned ==
    /\ gp.pc = "returned"
    /\ gp.createPR

\* this.source.branch || 'main'
ConfiguredBranch(source) ==
    IF source.branch = Undef THEN MainBranch ELSE <<source.branch>>

\* C28: between pushes the clone has the configured branch of the source
\* checked out: a review-branch push that has returned, with a branch or
\* with false, has not left the clone on its review branch.
C28_CloneBackOnConfiguredBranch ==
    [](ReviewPushReturned =>
          /\ repo.clone.head # gp.branchName
          /\ repo.clone.head = ConfiguredBranch(gp.source))

\* A review-branch push has returned false and the clone is on the review
\* branch it made.
C28_Witness ==
    /\ ReviewPushReturned
    /\ gp.result = ResultFalse
    /\ repo.clone.head = gp.branchName
    /\ repo.clone.head # ConfiguredBranch(gp.source)

\* What createPullRequest does: whenever it returns, the clone is on the
\* review branch.
C28_CloneStaysOnReviewBranch ==
    [](ReviewPushReturned => repo.clone.head = gp.branchName)

\* With git as installed, the push after a review-branch push cannot
\* update the clone: ensureRepo throws, the repository being reachable or
\* not.
C28_NextPushThrows ==
    [][(/\ gp.pc = "ensure"
        /\ gp' # gp
        /\ repo.clone.exists
        /\ repo.clone.head # MainBranch) => gp'.pc = "thrown"]_vars

\* With git configured to inherit the upstream, a later review branch has
\* started from an earlier review branch: its base is not in the
\* configured branch of the repository.
C28_StackedReviewBranch ==
    /\ ReviewPushReturned
    /\ gp.base # 0
    /\ gp.atCall.clone.exists
    /\ gp.atCall.clone.head \notin {MainBranch, ConfiguredBranch(gp.source)}
    /\ gp.base = gp.atCall.clone.heads[gp.atCall.clone.head]
    /\ ConfiguredBranch(gp.source) \in DOMAIN repo.remote
    /\ gp.base \notin Ancestors(repo.remote[ConfiguredBranch(gp.source)])

\* The push after a review-branch push has thrown in ensureRepo.
C28_NextPushThrown ==
    /\ gp.pc = "thrown"
    /\ repo.clone.exists
    /\ repo.clone.head # MainBranch
    /\ gp.message = PushWrap(gp,
          "There is no tracking information for the current branch.")

(***************************************************************************)
(* Properties of the built-in default document                             *)
(***************************************************************************)
\* loadConfig has returned while neither directory has a configuration
\* file.
LoadedWithoutFile ==
    /\ cfgOut.op = "load"
    /\ configFile["cwd"].state = "absent"
    /\ configFile["home"].state = "absent"

\* C29: configuration operations never alter the built-in default
\* document: after any addSource and removeSource calls of the process,
\* those whose saveConfig failed included, a loadConfig made while no
\* configuration file exists returns the original default document (one
\* source named local, cache enabled, ttl 3600000).
C29_DefaultDocumentIntact ==
    [](LoadedWithoutFile => cfgOut.doc = DefaultConfigLiteral)

\* loadConfig without a file has returned a document with a source that
\* an addSource call, whose save failed, had added.
C29_Witness ==
    /\ LoadedWithoutFile
    /\ Len(cfgOut.doc.sources) = 2
    /\ cfgOut.doc.sources[1] = LocalDefaultSource
    /\ cfgOut.doc.sources[2].name \in AddNames

\* loadConfig without a file has returned a document without the source
\* local, which a removeSource call, whose save failed, had removed.
C29_LocalRemoved ==
    /\ LoadedWithoutFile
    /\ cfgOut.doc.sources = << >>

\* The cache settings of the default document are never altered, and in a
\* process that has made no failing call the document is the original.
C29_CacheSettingsIntact ==
    [](LoadedWithoutFile =>
          /\ cfgOut.doc = defaultConfig
          /\ cfgOut.doc.cache = DefaultCache)

(***************************************************************************)
(* Properties of the cache of a source that is defined again               *)
(***************************************************************************)
\* fetchTemplate has returned the template from a git source.
ServedByGit ==
    /\ ft.pc = "returned"
    /\ ft.source.type = "github"

\* The content is the file that the repository of the definition serves
\* for the template.
OfOwnDefinition ==
    ft.content = remote.files[buildRawUrl(ft.source, ft.type, ft.name)]

\* C30: a cache entry is served only for the definition it was fetched
\* from: after gh is added again with another url, branch or base path, or
\* removed and added again, a fetch from it never returns content cached
\* from the earlier definition, even while the entry is younger than the
\* TTL.
C30_ServedFromOwnDefinition ==
    [](ServedByGit => OfOwnDefinition)

\* A fetch from the new definition was served, without a request, from an
\* entry younger than the TTL that holds the file of another definition.
C30_Witness ==
    /\ ServedByGit
    /\ ~ft.tried[Len(ft.tried)].http
    /\ LET path == getCachePath(ft.source, ft.type, ft.name) IN
          /\ pathExists(cache, path)
          /\ clock - cache[path].mtime < DefaultTtl
          /\ cache[path].content = ft.content
    /\ \E other \in Redefinitions \ {ft.source} :
          ft.content = remote.files[buildRawUrl(other, ft.type, ft.name)]

\* A fetch that asked the repository returned the file of its own
\* definition.
C30_RequestedIsOwn ==
    []((ServedByGit /\ ft.tried[Len(ft.tried)].http) => OfOwnDefinition)

=========================================================================
